---- MODULE Spec2Model ----
(***************************************************************************)
(* The durable, checkpointed workflow engine of ensimu.space: Checkpoint   *)
(* Store, Step Executor Registry, Workflow Engine and HITL Checkpoint      *)
(* Manager (spec.md sections 3-5, 7; the backend file                      *)
(* app/libs/langgraph_workflow.py is described by src/unnamed/part_001).   *)
(***************************************************************************)
EXTENDS Integers, Sequences, FiniteSets, TLC

\* ------------------------------------------------------------------ bounds
MaxCheckpoints == 5
MaxRecords == 2

\* thread_ids and (HITL) checkpoint_ids; id 0 stands for "no thread".
Threads == {1, 2}
CheckpointIds == 1..MaxRecords

\* ------------------------------------------------------- the step pipeline
Pipeline == <<"geometry", "mesh", "physics">>
Steps == {Pipeline[i] : i \in 1..Len(Pipeline)}
TerminalMarker == "end"
TotalKnownSteps == Len(Pipeline)

\* max_iterations of a WorkflowThread.
MaxIterations == 3

\* The model follows a thread until a step has been invoked once more than
\* the iteration bound lets a step complete.
MaxExecutions == MaxIterations + 2

StepIndex(s) == CHOOSE i \in 1..Len(Pipeline) : Pipeline[i] = s
Succ(s) == IF StepIndex(s) = Len(Pipeline) THEN TerminalMarker
           ELSE Pipeline[StepIndex(s) + 1]

\* Number of occurrences of step name s in the sequence q.
Count(s, q) == Cardinality({i \in 1..Len(q) : q[i] = s})

\* ------------------------------------------------------------- data model
EmptyPayload == [approved |-> "unset", feedback |-> "none", results |-> {}]

\* The value of a WorkflowThread slot that holds no thread.
NoThread == [current_step |-> "none", completed_steps |-> <<>>, status |-> "none",
             progress_percent |-> 0, payload |-> EmptyPayload, errors |-> <<>>]

NewThread == [current_step |-> Pipeline[1], completed_steps |-> <<>>,
              status |-> "running", progress_percent |-> 0,
              payload |-> EmptyPayload, errors |-> <<>>]

Terminal(w) == w.status \in {"completed", "failed"}

\* The human responses a reviewer may give: {approved, feedback}.
Responses == {[approved |-> TRUE, feedback |-> "none"],
              [approved |-> FALSE, feedback |-> "redo mesh"]}

VARIABLES
  store,      \* Checkpoint Store: set of [thread_id, step_sequence_number, state_snapshot]
  hitl,       \* HITL Checkpoint Manager: sequence of records, checkpoint_id = index
  registry,   \* Step Executor Registry in use by each thread
  pc,         \* position of each thread's step loop
  mem,        \* in-memory WorkflowThread of the running step loop
  event,      \* the last operation and its (typed) outcome
  execCount,  \* history: executor invocations per thread and step
  lastSaved,  \* history: the snapshot of the last successful save per thread
  fired       \* history: times a record's resolution resumed or failed its workflow

engineVars == <<store, hitl, registry, pc, mem, event,
                execCount, lastSaved, fired>>

\* Construction of SimulationPreprocessingWorkflow (src/unnamed/part_001).
VARIABLES
  engine,     \* checkpointer manager and compiled workflow graph of the instance
  runs        \* per workflow: graph steps executed and checkpoints written

bootVars == <<engine, runs>>

\* Message envelope codec (src/frontend/src/utils/websocketUtils.ts).
VARIABLES
  codec,      \* the message last encoded, the text on the wire, the decode result
  seen        \* history: the failures decode has returned, by kind of bad input

codecVars == <<codec, seen>>

\* Connection attempts of the hooks (useWorkflow.ts, useWebSocketConnection.ts).
VARIABLES
  conn        \* the hook mounted, its connectionParams, the URL, the handshake

connVars == <<conn>>

\* One instance of the useWebSocket hook (src/frontend/src/hooks/useWebSocket.ts).
VARIABLES
  socks,      \* the WebSocket objects the instance has created, in order
  ws,         \* its refs, timers and connection state
  stats,      \* its stats state
  inbox,      \* lastMessage and what the onMessage handler was given
  call        \* the last call or event and what it returned

wsVars == <<socks, ws, stats, inbox, call>>

\* The agent state of useSimulationState (src/unnamed/part_003) and its users.
VARIABLES
  sim,        \* the state the setter of useCoAgent holds
  rendered,   \* the state the last render handed to the functions of the hook
  uploads,    \* the handleFileUpload calls of useSimulationActions in flight
  dash,       \* the timers of the dashboard's handleFileUpload
  simCall     \* the last call and what it recorded

simVars == <<sim, rendered, uploads, dash, simCall>>

\* The HITLCheckpoint modal (src/unnamed/part_002) and the record it answers.
VARIABLES
  modal,      \* the modal: activeCheckpoint, its submissions in flight, alerts
  record      \* the HITLCheckpointRecord of the checkpoint at the manager

modalVars == <<modal, record>>

\* The useWorkflow hook (src/frontend/src/hooks/useWorkflow.ts).
VARIABLES
  workflows,        \* workflow_id -> the client's mirror of the workflow
  currentWorkflow,  \* the workflow started last by this client, or "null"
  hitlCheckpoints,  \* the checkpoints announced to this client, in order
  wf                \* error, the respond call in flight, what the last call did

wfVars == <<workflows, currentWorkflow, hitlCheckpoints, wf>>

vars == <<engineVars, bootVars, codecVars, connVars, wsVars, simVars, modalVars, wfVars>>

\* What the operations of one component leave alone: the other components.
otherThanEngine == <<bootVars, codecVars, connVars, wsVars, simVars, modalVars, wfVars>>
otherThanBoot == <<engineVars, codecVars, connVars, wsVars, simVars, modalVars, wfVars>>
otherThanCodec == <<engineVars, bootVars, connVars, wsVars, simVars, modalVars, wfVars>>
otherThanConn == <<engineVars, bootVars, codecVars, wsVars, simVars, modalVars, wfVars>>
otherThanWs == <<engineVars, bootVars, codecVars, connVars, simVars, modalVars, wfVars>>
otherThanSim == <<engineVars, bootVars, codecVars, connVars, wsVars, modalVars, wfVars>>
otherThanModal == <<engineVars, bootVars, codecVars, connVars, wsVars, simVars, wfVars>>
otherThanWf == <<engineVars, bootVars, codecVars, connVars, wsVars, simVars, modalVars>>

\* ------------------------------------------------------- Checkpoint Store
CheckpointsOf(t) == {c \in store : c.thread_id = t}

\* Mutant of NextSeq: the number of the thread's last checkpoint is reused.
NextSeqReused(t) ==
  IF CheckpointsOf(t) = {} THEN 0 ELSE Cardinality(CheckpointsOf(t)) - 1

\* save assigns the next sequence number for the thread, starting at 0.
NextSeq(t) == Cardinality(CheckpointsOf(t))

\* save: append one checkpoint; prior checkpoints are kept.
Save(t, w) ==
  store \cup {[thread_id |-> t, step_sequence_number |-> NextSeq(t), state_snapshot |-> w]}

HasCheckpoint(t) == CheckpointsOf(t) # {}

\* Mutant of LoadLatest: the lowest sequence number is read.
LoadOldest(t) ==
  (CHOOSE c \in CheckpointsOf(t) :
     \A d \in CheckpointsOf(t) : d.step_sequence_number >= c.step_sequence_number).state_snapshot

\* load_latest: the snapshot of the checkpoint with the highest sequence number.
LoadLatest(t) ==
  (CHOOSE c \in CheckpointsOf(t) :
     \A d \in CheckpointsOf(t) : d.step_sequence_number <= c.step_sequence_number).state_snapshot

\* The durable state of a thread (NoThread before start).
Durable(t) == IF HasCheckpoint(t) THEN LoadLatest(t) ELSE NoThread

\* Model bound: the threads whose executors are arbitrary write at most
\* MaxCheckpoints checkpoints between them (the executors of the other
\* threads bound their runs themselves).
Budget == Cardinality({c \in store : registry[c.thread_id] = "any"}) < MaxCheckpoints
Room(t) == registry[t] = "e2e" \/ Budget

\* ------------------------------------------------- Step Executor Registry
StepResult(next) == [kind |-> "StepResult", next_step |-> next, reason |-> "none"]
NeedsReview == [kind |-> "NeedsReview", next_step |-> "none", reason |-> "none"]
StepFailure == [kind |-> "StepFailure", next_step |-> "none", reason |-> "executor failed"]

Registries == {"any", "e2e"}

\* The results the executor of `step` may return for `payload`.
\* "e2e": geometry -> mesh -> physics where mesh asks for review until approved.
\* "any": every executor may return any result, and may ask to re-enter its step.
Execute(reg, step, payload) ==
  IF reg = "e2e"
  THEN IF step = "mesh" /\ payload.approved # "yes"
       THEN {NeedsReview}
       ELSE {StepResult(Succ(step))}
  ELSE {StepResult(Succ(step)), StepResult(step), NeedsReview, StepFailure}

\* ---------------------------------------------------------- Workflow Engine
\* Mutant of Progress: the percentage is rounded up.
ProgressRoundedUp(completed) ==
  (100 * Len(completed) + TotalKnownSteps - 1) \div TotalKnownSteps

\* progress_percent = len(completed_steps) / total_known_steps, in percent.
Progress(completed) == (100 * Len(completed)) \div TotalKnownSteps

Fail(w, msg) ==
  [w EXCEPT !.status = "failed",
            !.errors = Append(@, [step |-> w.current_step, message |-> msg])]

\* The WorkflowThread after the engine has merged the executor's result r.
OnStepResult(w, r) ==
  LET done == Append(w.completed_steps, w.current_step)
      merged == [w EXCEPT !.completed_steps = done,
                          !.payload.results = @ \cup {w.current_step},
                          !.progress_percent = Progress(done)]
  IN IF Count(w.current_step, done) > MaxIterations
     THEN Fail([w EXCEPT !.completed_steps = done], "IterationLimitExceeded")
     ELSE IF r.next_step = TerminalMarker
     THEN [merged EXCEPT !.current_step = TerminalMarker, !.status = "completed"]
     ELSE [merged EXCEPT !.current_step = r.next_step]

HandleResult(w, r) ==
  CASE r.kind = "StepResult" -> OnStepResult(w, r)
    [] r.kind = "NeedsReview" -> [w EXCEPT !.status = "paused_for_review"]
    [] OTHER -> Fail(w, r.reason)

\* ---------------------------------------------------- HITL Checkpoint Manager
PendingOf(t) == {c \in 1..Len(hitl) : hitl[c].thread_id = t /\ hitl[c].status = "pending"}

\* Mutant of MayCreate: create never checks for a pending record.
MayCreateAlways(t) == TRUE

\* create fails with DuplicatePending while the thread has a pending record.
MayCreate(t) == PendingOf(t) = {}

NewRecord(t, step) ==
  [thread_id |-> t, checkpoint_type |-> step, status |-> "pending",
   reviewer_feedback |-> "none", resolved |-> FALSE]

\* The payload after the manager has merged {approved, feedback} into it.
MergeResponse(w, resp) ==
  [w EXCEPT !.payload.approved = IF resp.approved THEN "yes" ELSE "no",
            !.payload.feedback = resp.feedback]

\* ---------------------------------------------------------------- events
\* resume: the outcome of the resume the operation signalled ("n/a" if none).
\* checkpoint_id: the HITL record the operation named (0 if none).
EvR(op, t, c, result, resumed) ==
  [op |-> op, thread |-> t, checkpoint_id |-> c, result |-> result, resume |-> resumed]
Ev(op, t, result) == EvR(op, t, 0, result, "n/a")

\* ------------------------------- construction of the engine (part_001)
MaxSteps == 2
Workflows == {1, 2}

\* LANGGRAPH_CHECKPOINTER_TYPE: "postgresql" (default) or "sqlite".
CheckpointerTypes == {"postgresql", "sqlite"}

NoEngine == [manager |-> "unset", checkpointer |-> "none", valid |-> FALSE,
             graph |-> "none", error |-> "none"]

BootInit ==
  /\ engine = NoEngine
  /\ runs = [w \in Workflows |-> [steps |-> 0, saved |-> 0]]

\* __init__: the checkpointer manager is created from CheckpointerConfig; a
\* failure is raised to the caller as RuntimeError.
InitCheckpointer(type, ok) ==
  /\ engine.manager = "unset"
  /\ engine' = IF ok
               THEN [engine EXCEPT !.manager = "ok", !.checkpointer = type]
               ELSE [engine EXCEPT !.manager = "failed",
                                   !.error = "RuntimeError"]
  /\ UNCHANGED runs

\* The graph _create_workflow_graph leaves in self.workflow_graph:
\* compile(checkpointer=...) in the try block, compile() in the except block.
\* A failed validate_checkpointer() only logs a warning.
CompiledGraph(getOk, isValid, compileOk) ==
  IF getOk /\ compileOk THEN "persistent" ELSE "volatile"

\* _create_workflow_graph, with the outcomes of get_checkpointer(),
\* validate_checkpointer() and workflow.compile(checkpointer=checkpointer).
CreateWorkflowGraph(getOk, isValid, compileOk) ==
  /\ engine.manager = "ok"
  /\ engine.graph = "none"
  /\ engine.error = "none"
  /\ engine' = [engine EXCEPT !.graph = CompiledGraph(getOk, isValid, compileOk),
                              !.valid = getOk /\ isValid]
  /\ UNCHANGED runs

\* _execute_workflow: the graph runs one more step of workflow w under its
\* thread_id; a graph compiled with a checkpointer persists the step, and a
\* checkpointer that failed validation may or may not.
ExecuteStep(w, written) ==
  /\ engine.graph # "none"
  /\ runs[w].steps < MaxSteps
  /\ written \in (CASE engine.graph = "volatile" -> {FALSE}
                    [] engine.valid -> {TRUE}
                    [] OTHER -> {TRUE, FALSE})
  /\ runs' = [runs EXCEPT ![w].steps = @ + 1,
                          ![w].saved = IF written THEN @ + 1 ELSE @]
  /\ UNCHANGED engine

BootNext ==
  \/ \E type \in CheckpointerTypes, ok \in BOOLEAN :
       InitCheckpointer(type, ok) /\ UNCHANGED otherThanBoot
  \/ \E getOk, isValid, compileOk \in BOOLEAN :
       CreateWorkflowGraph(getOk, isValid, compileOk) /\ UNCHANGED otherThanBoot
  \/ \E w \in Workflows, written \in BOOLEAN :
       ExecuteStep(w, written) /\ UNCHANGED otherThanBoot

\* ------------------------------------- message envelope codec (websocketUtils)
\* JavaScript values, as far as the codec can tell them apart.
JsUndefined == [t |-> "undefined"]
JsNull == [t |-> "null"]
JsTrue == [t |-> "boolean", v |-> "true"]
JsNumber(n) == [t |-> "number", v |-> n]
JsString(str) == [t |-> "string", v |-> str]
JsObject(props) == [t |-> "object", p |-> props]
JsArray(elems) == [t |-> "array", e |-> elems]

\* typeof v
TypeOf(v) ==
  CASE v.t \in {"null", "object", "array"} -> "object"
    [] OTHER -> v.t

\* !v
Falsy(v) ==
  \/ v.t \in {"undefined", "null"}
  \/ v.t = "number" /\ v.v \in {"0", "NaN"}
  \/ v.t = "string" /\ v.v = ""
  \/ v.t = "boolean" /\ v.v = "false"

\* v[k] of a value that is not null or undefined
Prop(v, k) ==
  IF v.t = "object" /\ k \in DOMAIN v.p THEN v.p[k] ELSE JsUndefined

\* enum MessageType
MessageType == {
  "connection_established", "heartbeat", "error",
  "agent_state_update", "agent_action_request", "agent_action_response",
  "workflow_status_update", "workflow_step_complete", "workflow_error",
  "hitl_checkpoint_created", "hitl_response_required", "hitl_response_submitted",
  "user_message", "prediction_request", "prediction_response", "state_change"}

\* The data mappings handed to createStandardMessage: no or one property
\* with a leaf value, the data of createHITLResponseMessage with and without
\* feedback, and the point of createPredictionRequestMessage.
DataLeaves == {JsUndefined, JsNull, JsTrue, JsNumber("1"), JsNumber("NaN"),
               JsString("redo mesh"), JsString("")}
DataKeys == {"content"}
FlatData == UNION {[ks -> DataLeaves] : ks \in SUBSET DataKeys}
HITLResponseData(feedback) ==
  [checkpoint_id |-> JsString("cp_456"),
   response_data |-> JsObject([approved |-> JsTrue, feedback |-> feedback])]
DataMappings ==
  {JsObject(d) : d \in FlatData}
    \cup {JsObject(HITLResponseData(f)) : f \in {JsUndefined, JsString("redo mesh")}}
    \cup {JsObject([point |-> JsArray(<<JsNumber("1"), n>>)]) :
            n \in {JsNumber("1"), JsNumber("NaN")}}

\* createStandardMessage(type, data, messageId)
createStandardMessage(type, data, messageId) ==
  JsObject([type |-> JsString(type),
            data |-> data,
            timestamp |-> JsString("2025-01-01T00:00:00.000Z"),
            message_id |-> IF Falsy(messageId) THEN JsString("msg_generated")
                           ELSE messageId])

\* The value JSON.stringify writes for v: a property whose value is undefined
\* is left out, an undefined list element and NaN are written as null.
RECURSIVE Serialized(_)
Serialized(v) ==
  CASE v.t = "object" ->
         JsObject([k \in {j \in DOMAIN v.p : v.p[j].t # "undefined"} |-> Serialized(v.p[k])])
    [] v.t = "array" ->
         JsArray([i \in 1..Len(v.e) |->
                    IF v.e[i].t = "undefined" THEN JsNull ELSE Serialized(v.e[i])])
    [] v.t = "number" /\ v.v = "NaN" -> JsNull
    [] OTHER -> v

\* A text on the wire: JSON text of a value, or text that is not JSON.
JSONText(v) == [valid |-> TRUE, doc |-> v]
NotJSON == [valid |-> FALSE, doc |-> JsUndefined]

\* JSON.stringify(v)
JSONStringify(v) == JSONText(Serialized(v))

\* JSON.parse(text): the value, or a SyntaxError thrown.
JSONParse(text) ==
  IF text.valid THEN [threw |-> FALSE, value |-> text.doc]
  ELSE [threw |-> TRUE, value |-> JsUndefined]

\* validateMessage(message)
validateMessage(message) ==
  IF TypeOf(message) # "object" \/ message.t = "null" THEN FALSE
  ELSE IF Falsy(Prop(message, "type")) \/ TypeOf(Prop(message, "type")) # "string"
  THEN FALSE
  ELSE IF Falsy(Prop(message, "data")) \/ TypeOf(Prop(message, "data")) # "object"
  THEN FALSE
  ELSE TRUE

\* Mutant of parseWebSocketMessage: no try/catch around JSON.parse.
parseWebSocketMessageUncaught(data) ==
  LET parsed == JSONParse(data)
  IN IF parsed.threw THEN [threw |-> TRUE, value |-> JsUndefined, log |-> "none"]
     ELSE IF ~validateMessage(parsed.value)
     THEN [threw |-> FALSE, value |-> JsNull, log |-> "Invalid message structure:"]
     ELSE [threw |-> FALSE, value |-> parsed.value, log |-> "none"]

\* parseWebSocketMessage(data): the message, or null; what console.error got.
parseWebSocketMessage(data) ==
  LET parsed == JSONParse(data)
  IN IF parsed.threw
     THEN [threw |-> FALSE, value |-> JsNull, log |-> "Failed to parse WebSocket message:"]
     ELSE IF ~validateMessage(parsed.value)
     THEN [threw |-> FALSE, value |-> JsNull, log |-> "Invalid message structure:"]
     ELSE [threw |-> FALSE, value |-> parsed.value, log |-> "none"]

\* Texts a peer may put on the wire: JSON values of every shape around the
\* envelope, and text that is not JSON.
WireTypes == {JsUndefined, JsNull, JsNumber("1"), JsString(""),
              JsString("heartbeat"), JsString("not_a_message_type")}
WireData == {JsUndefined, JsNull, JsNumber("0"), JsString("invalid"),
             JsArray(<<JsNumber("1")>>), JsObject(<<>>),
             JsObject([test |-> JsString("data")])}
WireEnvelope(type, data, stamped) ==
  Serialized(JsObject([type |-> type, data |-> data,
                       timestamp |-> IF stamped THEN JsString("2025-01-01T00:00:00.000Z")
                                     ELSE JsUndefined,
                       message_id |-> IF stamped THEN JsString("test123")
                                      ELSE JsUndefined]))
WireValues ==
  {WireEnvelope(type, data, stamped) :
     type \in WireTypes, data \in WireData, stamped \in BOOLEAN}
    \cup {JsNull, JsNumber("1"), JsString("heartbeat"), JsArray(<<>>)}

NothingSent == [type |-> "none", data |-> JsUndefined]
NotDecoded == [threw |-> FALSE, value |-> JsUndefined, log |-> "not decoded"]

CodecInit ==
  /\ codec = [sent |-> NothingSent, wire |-> NotJSON, result |-> NotDecoded]
  /\ seen = {}

\* The sender encodes and serialises a message:
\* JSON.stringify(createStandardMessage(type, data, messageId)).
Encode(type, data, messageId) ==
  /\ codec' = [sent |-> [type |-> type, data |-> data],
               wire |-> JSONStringify(createStandardMessage(type, data, messageId)),
               result |-> NotDecoded]
  /\ UNCHANGED seen

\* The text of an encoded message arrives cut short.
Truncate ==
  /\ codec.wire.valid
  /\ codec.result = NotDecoded
  /\ codec' = [codec EXCEPT !.wire = NotJSON]
  /\ UNCHANGED seen

\* A peer puts a text of its own on the wire.
Inject(text) ==
  /\ codec' = [sent |-> NothingSent, wire |-> text, result |-> NotDecoded]
  /\ UNCHANGED seen

\* The kind of bad input a text is, by the contract of decode.
InputKind(text) ==
  IF ~text.valid THEN "malformed" ELSE "structured"

\* The receiver decodes the text on the wire.
Decode ==
  /\ codec.result = NotDecoded
  /\ LET r == parseWebSocketMessage(codec.wire)
     IN /\ codec' = [codec EXCEPT !.result = r]
        /\ seen' = IF r.value = JsNull /\ ~r.threw
                   THEN seen \cup {[kind |-> InputKind(codec.wire), returned |-> r.value]}
                   ELSE seen

CodecNext ==
  \/ \E type \in MessageType, data \in DataMappings,
        messageId \in {JsUndefined, JsString("test123")} :
       Encode(type, data, messageId) /\ UNCHANGED otherThanCodec
  \/ Truncate /\ UNCHANGED otherThanCodec
  \/ \E text \in {JSONText(v) : v \in WireValues} \cup {NotJSON} :
       Inject(text) /\ UNCHANGED otherThanCodec
  \/ Decode /\ UNCHANGED otherThanCodec

\* ----------------------------------- connection parameters of the hooks
Hooks == {"useWorkflow", "useWebSocketConnection", "useWebSocket"}

\* What a caller may pass for an identifier: nothing, the empty string, a value.
UserIds == {JsUndefined, JsString(""), JsString("user123"), JsString("anonymous")}
ProjectIds == {JsUndefined, JsString(""), JsString("proj456")}
WorkflowIds == {JsUndefined, JsString(""), JsString("wf789")}

\* A parameter with a default value: the default replaces undefined only.
DefaultParam(v, default) == IF v = JsUndefined THEN default ELSE v

\* a || b
OrElse(a, b) == IF Falsy(a) THEN b ELSE a

\* The connectionParams each hook hands to useWebSocket.
ConnectionParams(hook, projectId, userId, workflowId) ==
  CASE hook = "useWorkflow" ->
         [user_id |-> DefaultParam(userId, JsString("anonymous")),
          project_id |-> OrElse(projectId, JsString("default")),
          workflow_id |-> JsUndefined]
    [] hook = "useWebSocketConnection" ->
         [user_id |-> DefaultParam(userId, JsString("anonymous")),
          project_id |-> projectId,
          workflow_id |-> JsUndefined]
    [] OTHER ->
         [user_id |-> userId, project_id |-> projectId, workflow_id |-> workflowId]

\* String(v), as URLSearchParams.set converts its value.
ToQueryString(v) == IF v = JsUndefined THEN "undefined" ELSE v.v

\* buildWebSocketUrl(baseUrl, params): the query of the URL.
buildWebSocketUrl(params) ==
  LET required == [k \in {"user_id", "project_id"} |-> ToQueryString(params[k])]
  IN IF Falsy(params.workflow_id) THEN required
     ELSE [k \in {"user_id", "project_id", "workflow_id"} |-> ToQueryString(params[k])]

\* Connection validation of the server (websocket-protocol-specification.md):
\* user_id and project_id must be provided and non-empty, else close 1008.
ServerValidation(query) ==
  IF "user_id" \notin DOMAIN query \/ query["user_id"] = ""
  THEN [state |-> "closed", code |-> 1008,
        reason |-> "Invalid parameters: user_id parameter is required"]
  ELSE IF "project_id" \notin DOMAIN query \/ query["project_id"] = ""
  THEN [state |-> "closed", code |-> 1008,
        reason |-> "Invalid parameters: project_id parameter is required"]
  ELSE [state |-> "accepted", code |-> 0, reason |-> "none"]

NoArgs == [projectId |-> JsUndefined, userId |-> JsUndefined, workflowId |-> JsUndefined]
NoParams == [user_id |-> JsUndefined, project_id |-> JsUndefined, workflow_id |-> JsUndefined]
NoHandshake == [state |-> "none", code |-> 0, reason |-> "none"]

ConnInit ==
  conn = [hook |-> "none", args |-> NoArgs, params |-> NoParams,
          phase |-> "unmounted", query |-> <<>>, handshake |-> NoHandshake,
          exchanged |-> 0]

\* A component renders a hook with its arguments; the hook builds connectionParams.
Render(hook, projectId, userId, workflowId) ==
  /\ conn.phase = "unmounted"
  /\ hook # "useWebSocket" => workflowId = JsUndefined
  /\ conn' = [conn EXCEPT
       !.hook = hook,
       !.args = [projectId |-> projectId, userId |-> userId, workflowId |-> workflowId],
       !.params = ConnectionParams(hook, projectId, userId, workflowId),
       !.phase = "rendered"]

\* The mount effect of useWebSocket calls connect(): new WebSocket(buildUrl()).
ConnectOnMount ==
  /\ conn.phase = "rendered"
  /\ conn' = [conn EXCEPT !.phase = "connecting",
                          !.query = buildWebSocketUrl(conn.params)]

\* The server validates the parameters of the URL and accepts the connection
\* (and sends connection_established) or closes it.
Handshake ==
  /\ conn.phase = "connecting"
  /\ LET h == ServerValidation(conn.query)
     IN conn' = [conn EXCEPT !.phase = "done", !.handshake = h,
                             !.exchanged = IF h.state = "accepted" THEN 1 ELSE 0]

ConnNext ==
  \/ \E hook \in Hooks, projectId \in ProjectIds, userId \in UserIds,
        workflowId \in WorkflowIds :
       Render(hook, projectId, userId, workflowId) /\ UNCHANGED otherThanConn
  \/ ConnectOnMount /\ UNCHANGED otherThanConn
  \/ Handshake /\ UNCHANGED otherThanConn

\* ------------------------------------------------- the useWebSocket hook
MaxSockets == 3
MaxTimers == 2
MaxCount == 2

\* maxReconnectAttempts (an option of the hook; 5 by default).
maxReconnectAttempts == 2

\* The silence, in heartbeat intervals, after which a channel counts as dead
\* (timeout window 60s, heartbeat interval 30s).
TimeoutIntervals == 2

NewSocket == [readyState |-> "CONNECTING", frames |-> 0, quiet |-> 0]

\* A call or an event: what it returned, whether it threw, the frames it
\* handed to a socket.
Call(op, sock, returned) ==
  [op |-> op, sock |-> sock, arg |-> JsUndefined, returned |-> returned,
   threw |-> FALSE, handed |-> <<>>]

WsInit ==
  /\ socks = <<>>
  /\ ws = [mounted |-> "no", wsRef |-> 0, reconnectTimeoutRef |-> "null",
           orphans |-> 0, delayed |-> 0, heartbeatTimeoutRef |-> "null",
           reconnectAttemptsRef |-> 0, shouldReconnectRef |-> TRUE,
           isConnected |-> FALSE, connectionState |-> "disconnected"]
  /\ stats = [messagesSent |-> 0, messagesReceived |-> 0, reconnectAttempts |-> 0,
              validationErrors |-> 0, handlerErrors |-> 0]
  /\ inbox = [lastMessage |-> "null", delivered |-> <<>>, arrived |-> <<>>]
  /\ call = Call("init", 0, "n/a")

\* wsRef.current?.readyState === WebSocket.OPEN
CurrentOpen(w, sk) == w.wsRef # 0 /\ sk[w.wsRef].readyState = "OPEN"

\* Mutant of AfterConnect: connect returns while its socket is CONNECTING too.
AfterConnectGuarded(w, sk) ==
  IF w.wsRef # 0 /\ sk[w.wsRef].readyState \in {"CONNECTING", "OPEN"}
  THEN [ws |-> w, socks |-> sk]
  ELSE [ws |-> [w EXCEPT !.connectionState = "connecting", !.wsRef = Len(sk) + 1],
        socks |-> Append(sk, NewSocket)]

\* connect(): refs and sockets after the call.
AfterConnect(w, sk) ==
  IF CurrentOpen(w, sk)
  THEN [ws |-> w, socks |-> sk]
  ELSE [ws |-> [w EXCEPT !.connectionState = "connecting", !.wsRef = Len(sk) + 1],
        socks |-> Append(sk, NewSocket)]

\* Model bound: connect() may run while it would not create a socket too many.
ConnectRoom(w, sk) == CurrentOpen(w, sk) \/ Len(sk) < MaxSockets

\* socket.close(): a socket that is not closed yet starts closing.
Closed(sock) ==
  [sock EXCEPT !.readyState = IF @ \in {"CONNECTING", "OPEN"} THEN "CLOSING" ELSE @]

\* disconnect(): refs and sockets after the call.
AfterDisconnect(w, sk) ==
  [ws |-> [w EXCEPT !.shouldReconnectRef = FALSE,
                    !.reconnectTimeoutRef = "null",
                    !.heartbeatTimeoutRef = "null",
                    !.wsRef = 0,
                    !.isConnected = FALSE,
                    !.connectionState = "disconnected"],
   socks |-> IF w.wsRef # 0 THEN [sk EXCEPT ![w.wsRef] = Closed(@)] ELSE sk]

\* The mount effect: shouldReconnectRef.current = true; connect().
Mount ==
  /\ ws.mounted = "no"
  /\ LET r == AfterConnect([ws EXCEPT !.mounted = "yes", !.shouldReconnectRef = TRUE], socks)
     IN ws' = r.ws /\ socks' = r.socks
  /\ call' = Call("mount", 0, "n/a")
  /\ UNCHANGED <<stats, inbox>>

\* The first render throws: the dependency list of the last effect names url
\* and params, which nothing declares; the hook works only where the page
\* defines them.
RenderThrows ==
  /\ ws.mounted = "no"
  /\ ws' = [ws EXCEPT !.mounted = "crashed"]
  /\ call' = [Call("render", 0, "n/a") EXCEPT !.threw = TRUE]
  /\ UNCHANGED <<socks, stats, inbox>>

\* A render with a new connect (an owner that passes new connectionParams or
\* handlers): the cleanup of the mount effect, then the effect again.
EffectRerun ==
  /\ ws.mounted = "yes"
  /\ Len(socks) < MaxSockets
  /\ LET d == AfterDisconnect(ws, socks)
         r == AfterConnect([d.ws EXCEPT !.shouldReconnectRef = TRUE], d.socks)
     IN ws' = r.ws /\ socks' = r.socks
  /\ call' = Call("effect rerun", 0, "n/a")
  /\ UNCHANGED <<stats, inbox>>

\* The cleanup of the mount effect: shouldReconnectRef.current = false; disconnect().
Unmount ==
  /\ ws.mounted = "yes"
  /\ LET r == AfterDisconnect(ws, socks)
     IN ws' = [r.ws EXCEPT !.mounted = "gone"] /\ socks' = r.socks
  /\ call' = Call("unmount", 0, "n/a")
  /\ UNCHANGED <<stats, inbox>>

\* onopen of socket i.
OnOpen(i) ==
  /\ socks[i].readyState = "CONNECTING"
  /\ socks' = [socks EXCEPT ![i].readyState = "OPEN"]
  /\ ws' = [ws EXCEPT !.isConnected = TRUE, !.connectionState = "connected",
                      !.reconnectAttemptsRef = 0, !.heartbeatTimeoutRef = "interval"]
  /\ call' = Call("onopen", i, "n/a")
  /\ UNCHANGED <<stats, inbox>>

\* Mutant of OnClose: the reconnect timer is started whatever the number of
\* attempts.
OnCloseUnbounded(i) ==
  /\ socks[i].readyState # "CLOSED"
  /\ ws.reconnectTimeoutRef = "pending" => ws.orphans < MaxTimers
  /\ socks' = [socks EXCEPT ![i].readyState = "CLOSED"]
  /\ ws' = [ws EXCEPT
       !.isConnected = FALSE,
       !.connectionState = "disconnected",
       !.heartbeatTimeoutRef = "null",
       !.reconnectAttemptsRef = @ + 1,
       !.reconnectTimeoutRef = "pending",
       !.orphans = IF ws.reconnectTimeoutRef = "pending" THEN @ + 1 ELSE @]
  /\ call' = Call("onclose", i, "n/a")
  /\ UNCHANGED <<stats, inbox>>

\* onclose of socket i: the server or the network closed it, or its close()
\* has completed. A reconnect timer replaces the one the ref held; a replaced
\* timer that had not fired still will.
OnClose(i) ==
  /\ socks[i].readyState # "CLOSED"
  /\ LET again == ws.shouldReconnectRef /\ ws.reconnectAttemptsRef < maxReconnectAttempts
         lost == again /\ ws.reconnectTimeoutRef = "pending"
     IN /\ lost => ws.orphans < MaxTimers
        /\ socks' = [socks EXCEPT ![i].readyState = "CLOSED"]
        /\ ws' = [ws EXCEPT
             !.isConnected = FALSE,
             !.connectionState = "disconnected",
             !.heartbeatTimeoutRef = "null",
             !.reconnectAttemptsRef = IF again THEN @ + 1 ELSE @,
             !.reconnectTimeoutRef = IF again THEN "pending" ELSE @,
             !.orphans = IF lost THEN @ + 1 ELSE @]
        /\ stats' = [stats EXCEPT !.reconnectAttempts =
                       IF again /\ @ < MaxCount THEN @ + 1 ELSE @]
  /\ call' = Call("onclose", i, "n/a")
  /\ UNCHANGED inbox

\* onerror of socket i.
OnError(i) ==
  /\ socks[i].readyState \in {"CONNECTING", "OPEN"}
  /\ ws' = [ws EXCEPT !.connectionState = "error"]
  /\ call' = Call("onerror", i, "n/a")
  /\ UNCHANGED <<socks, stats, inbox>>

\* The reconnect timer of onclose fires: connect().
ReconnectTimerFires(tracked) ==
  /\ IF tracked THEN ws.reconnectTimeoutRef = "pending" ELSE ws.orphans > 0
  /\ LET w == IF tracked THEN [ws EXCEPT !.reconnectTimeoutRef = "fired"]
              ELSE [ws EXCEPT !.orphans = @ - 1]
         r == AfterConnect(w, socks)
     IN /\ ConnectRoom(w, socks)
        /\ ws' = r.ws /\ socks' = r.socks
  /\ call' = Call("reconnect timer", 0, "n/a")
  /\ UNCHANGED <<stats, inbox>>

\* disconnect(), called by the owner.
Disconnect ==
  /\ ws.mounted = "yes"
  /\ LET r == AfterDisconnect(ws, socks)
     IN ws' = r.ws /\ socks' = r.socks
  /\ call' = Call("disconnect", 0, "n/a")
  /\ UNCHANGED <<stats, inbox>>

\* reconnect(), called by the owner: disconnect(), then connect() after 100ms
\* on a timer no ref holds.
Reconnect ==
  /\ ws.mounted = "yes"
  /\ ws.delayed < MaxTimers
  /\ LET r == AfterDisconnect(ws, socks)
     IN /\ ws' = [r.ws EXCEPT !.shouldReconnectRef = TRUE,
                              !.reconnectAttemptsRef = 0,
                              !.delayed = @ + 1]
        /\ socks' = r.socks
  /\ call' = Call("reconnect", 0, "n/a")
  /\ UNCHANGED <<stats, inbox>>

\* The last effect, run after a render that saw isConnected turn true:
\* reconnect().
ParamsEffect ==
  /\ ws.mounted = "yes"
  /\ ws.isConnected
  /\ ws.delayed < MaxTimers
  /\ LET r == AfterDisconnect(ws, socks)
     IN /\ ws' = [r.ws EXCEPT !.shouldReconnectRef = TRUE,
                              !.reconnectAttemptsRef = 0,
                              !.delayed = @ + 1]
        /\ socks' = r.socks
  /\ call' = Call("params effect", 0, "n/a")
  /\ UNCHANGED <<stats, inbox>>

\* The 100ms timer of reconnect() fires: connect().
DelayedConnectFires ==
  /\ ws.delayed > 0
  /\ LET w == [ws EXCEPT !.delayed = @ - 1]
         r == AfterConnect(w, socks)
     IN /\ ConnectRoom(w, socks)
        /\ ws' = r.ws /\ socks' = r.socks
  /\ call' = Call("delayed connect", 0, "n/a")
  /\ UNCHANGED <<stats, inbox>>

\* sendHeartbeat(): the frames it hands to wsRef.current.
sendHeartbeat(w, sk) ==
  IF CurrentOpen(w, sk)
  THEN <<JSONStringify(createStandardMessage("heartbeat", JsObject(<<>>), JsUndefined))>>
  ELSE <<>>

\* One heartbeat interval passes without inbound traffic; if the interval
\* timer is set, sendHeartbeat runs.
IntervalElapses ==
  /\ \E i \in 1..Len(socks) : socks[i].readyState = "OPEN" /\ socks[i].quiet < TimeoutIntervals
  /\ LET beat == IF ws.heartbeatTimeoutRef = "interval" THEN sendHeartbeat(ws, socks)
                 ELSE <<>>
     IN /\ beat # <<>> => socks[ws.wsRef].frames < MaxCount
        /\ socks' = [i \in 1..Len(socks) |->
             [socks[i] EXCEPT
                !.quiet = IF socks[i].readyState = "OPEN" /\ @ < TimeoutIntervals
                          THEN @ + 1 ELSE @,
                !.frames = IF i = ws.wsRef THEN @ + Len(beat) ELSE @]]
        /\ call' = [Call("interval", ws.wsRef, "n/a") EXCEPT !.handed = beat]
  /\ UNCHANGED <<ws, stats, inbox>>

\* A value JSON.stringify throws a TypeError for.
JsBigInt == [t |-> "bigint"]

\* Whether JSON.stringify(v) throws.
RECURSIVE StringifyThrows(_)
StringifyThrows(v) ==
  CASE v.t = "bigint" -> TRUE
    [] v.t = "object" -> \E k \in DOMAIN v.p : StringifyThrows(v.p[k])
    [] v.t = "array" -> \E i \in 1..Len(v.e) : StringifyThrows(v.e[i])
    [] OTHER -> FALSE

Refused == [returned |-> FALSE, threw |-> FALSE, handed |-> <<>>]
Thrown == [returned |-> FALSE, threw |-> TRUE, handed |-> <<>>]
Handed(text) == [returned |-> TRUE, threw |-> FALSE, handed |-> <<text>>]

\* Mutant of sendMessage: no check of the socket, no try/catch.
sendMessageUnchecked(w, sk, type, data) ==
  IF w.wsRef = 0 \/ StringifyThrows(data) THEN Thrown
  ELSE Handed(JSONStringify(createStandardMessage(type, data, JsUndefined)))

\* sendMessage(type, data): what it returns and hands to wsRef.current.
sendMessage(w, sk, type, data) ==
  IF ~CurrentOpen(w, sk) THEN Refused
  ELSE IF StringifyThrows(data) THEN Refused
  ELSE Handed(JSONStringify(createStandardMessage(type, data, JsUndefined)))

\* Mutant of sendRawMessage: the message is not validated.
sendRawMessageUnvalidated(w, sk, message) ==
  IF ~CurrentOpen(w, sk) THEN Refused
  ELSE IF StringifyThrows(message) THEN Refused
  ELSE Handed(JSONStringify(message))

\* sendRawMessage(message): what it returns and hands to wsRef.current.
sendRawMessage(w, sk, message) ==
  IF ~CurrentOpen(w, sk) THEN Refused
  ELSE IF ~validateMessage(message) THEN Refused
  ELSE IF StringifyThrows(message) THEN Refused
  ELSE Handed(JSONStringify(message))

\* What the owner may hand to the two send functions.
SendData == {JsObject([content |-> JsString("redo mesh")]),
             JsObject([content |-> JsBigInt])}
RawMessages ==
  {createStandardMessage("user_message", d, JsString("test123")) : d \in SendData}
    \cup {JsObject([data |-> JsObject(<<>>)]),
          JsObject([type |-> JsString("user_message"), data |-> JsString("invalid")])}

\* The effect of a send on the socket and on stats.messagesSent.
Send(op, arg, r) ==
  /\ r.returned => stats.messagesSent < MaxCount /\ socks[ws.wsRef].frames < MaxCount
  /\ socks' = IF r.handed # <<>>
              THEN [socks EXCEPT ![ws.wsRef].frames = @ + Len(r.handed)] ELSE socks
  /\ stats' = IF r.returned THEN [stats EXCEPT !.messagesSent = @ + 1] ELSE stats
  /\ call' = [op |-> op, sock |-> ws.wsRef, arg |-> arg, returned |-> r.returned,
              threw |-> r.threw, handed |-> r.handed]
  /\ UNCHANGED <<ws, inbox>>

\* The owner calls sendMessage(type, data).
SendMessage(type, data) ==
  /\ ws.mounted = "yes"
  /\ Send("sendMessage", data, sendMessage(ws, socks, type, data))

\* The owner calls sendRawMessage(message).
SendRawMessage(message) ==
  /\ ws.mounted = "yes"
  /\ Send("sendRawMessage", message, sendRawMessage(ws, socks, message))

\* Texts the server may send: text that is not JSON, JSON that is no message,
\* a heartbeat, the two error messages of the protocol, a workflow message.
ErrorMessage(error) ==
  WireEnvelope(JsString("error"), JsObject([error |-> JsString(error)]), TRUE)
InboundTexts ==
  {NotJSON,
   JSONText(JsObject([invalid |-> JsString("structure")])),
   JSONText(WireEnvelope(JsString("heartbeat"), JsObject(<<>>), TRUE)),
   JSONText(ErrorMessage("Message validation failed")),
   JSONText(ErrorMessage("Handler execution failed")),
   JSONText(WireEnvelope(JsString("workflow_status_update"),
                         JsObject([test |-> JsString("data")]), TRUE))}

\* isValidationError(message), isHandlerError(message)
isValidationError(message) ==
  Prop(message, "type") = JsString("error")
    /\ Prop(Prop(message, "data"), "error") = JsString("Message validation failed")
isHandlerError(message) ==
  Prop(message, "type") = JsString("error")
    /\ Prop(Prop(message, "data"), "error") = JsString("Handler execution failed")

\* Mutant of onmessage: a text that is no message is passed on like a message.
onmessageUnfiltered(text, st, in) ==
  LET type == IF text.valid /\ text.doc.t = "object" /\ "type" \in DOMAIN text.doc.p
              THEN text.doc.p["type"].v ELSE "undefined"
  IN [stats |-> [st EXCEPT !.messagesReceived = @ + 1],
      inbox |-> [in EXCEPT !.lastMessage = type, !.delivered = Append(@, type)]]

\* The onmessage handler: stats and inbox after it has run on a text.
onmessage(text, st, in) ==
  LET message == parseWebSocketMessage(text).value
      type == Prop(message, "type").v
  IN IF message = JsNull
     THEN [stats |-> [st EXCEPT !.validationErrors = @ + 1], inbox |-> in]
     ELSE [stats |-> [st EXCEPT
                        !.messagesReceived = @ + 1,
                        !.validationErrors = IF isValidationError(message) THEN @ + 1 ELSE @,
                        !.handlerErrors = IF ~isValidationError(message) /\ isHandlerError(message)
                                          THEN @ + 1 ELSE @],
           inbox |-> [in EXCEPT
                        !.lastMessage = type,
                        !.delivered = IF type # "heartbeat" THEN Append(@, type) ELSE @]]

\* A text arrives on socket i. The history inbox.arrived keeps the messages
\* that are valid and no heartbeat, in the order of their arrival.
OnMessage(i, text) ==
  /\ socks[i].readyState = "OPEN"
  /\ stats.messagesReceived < MaxCount
  /\ stats.validationErrors < MaxCount
  /\ stats.handlerErrors < MaxCount
  /\ LET r == onmessage(text, stats, inbox)
         message == parseWebSocketMessage(text).value
     IN /\ stats' = r.stats
        /\ inbox' = [r.inbox EXCEPT !.arrived =
                       IF message # JsNull /\ Prop(message, "type").v # "heartbeat"
                       THEN Append(@, Prop(message, "type").v) ELSE @]
  /\ socks' = [socks EXCEPT ![i].quiet = 0]
  /\ call' = [Call("onmessage", i, "n/a") EXCEPT !.arg = text]
  /\ UNCHANGED ws

\* The life of the instance's sockets: the hook's calls, timers and socket events.
WsNext ==
  \/ Mount /\ UNCHANGED otherThanWs
  \/ RenderThrows /\ UNCHANGED otherThanWs
  \/ EffectRerun /\ UNCHANGED otherThanWs
  \/ ParamsEffect /\ UNCHANGED otherThanWs
  \/ Unmount /\ UNCHANGED otherThanWs
  \/ \E i \in 1..Len(socks) : OnOpen(i) /\ UNCHANGED otherThanWs
  \/ \E i \in 1..Len(socks) : OnClose(i) /\ UNCHANGED otherThanWs
  \/ \E i \in 1..Len(socks) : OnError(i) /\ UNCHANGED otherThanWs
  \/ \E tracked \in BOOLEAN : ReconnectTimerFires(tracked) /\ UNCHANGED otherThanWs
  \/ Disconnect /\ UNCHANGED otherThanWs
  \/ Reconnect /\ UNCHANGED otherThanWs
  \/ DelayedConnectFires /\ UNCHANGED otherThanWs
  \/ IntervalElapses /\ UNCHANGED otherThanWs

\* The traffic of the instance: sends and arrivals while its socket opens,
\* closes and is reconnected by the timer of onclose.
WsMsgNext ==
  \/ Mount /\ UNCHANGED otherThanWs
  \/ \E i \in 1..Len(socks) : OnOpen(i) /\ UNCHANGED otherThanWs
  \/ \E i \in 1..Len(socks) : OnClose(i) /\ UNCHANGED otherThanWs
  \/ ReconnectTimerFires(TRUE) /\ UNCHANGED otherThanWs
  \/ ParamsEffect /\ UNCHANGED otherThanWs
  \/ Disconnect /\ UNCHANGED otherThanWs
  \/ \E data \in SendData : SendMessage("user_message", data) /\ UNCHANGED otherThanWs
  \/ \E message \in RawMessages : SendRawMessage(message) /\ UNCHANGED otherThanWs
  \/ \E i \in 1..Len(socks), text \in InboundTexts :
       OnMessage(i, text) /\ UNCHANGED otherThanWs

\* ------------------------------------- useSimulationState and its users
MaxEntries == 2
MaxUploads == 2
MaxDrops == 1

Uploads == 1..MaxUploads
EntrySteps == {"geometry", "mesh"}

\* initialState of useCoAgent, as far as the functions below read it.
InitialSimulationState == [errors |-> <<>>, warnings |-> <<>>, cadFiles |-> <<>>]

NoUpload == [pc |-> "idle", seen |-> InitialSimulationState, before |-> <<>>]

SimInit ==
  /\ sim = InitialSimulationState
  /\ rendered = InitialSimulationState
  /\ uploads = [u \in Uploads |-> NoUpload]
  /\ dash = [drops |-> 0, timers |-> {}]
  /\ simCall = [op |-> "init", entry |-> <<>>, upload |-> 0]

SimCalled(op, entry, u) == [op |-> op, entry |-> entry, upload |-> u]

\* updateSimulationState(updates) for updates that hold one property:
\* setState(prevState => ({...prevState, ...updates})).
updateSimulationState(prevState, key, value) == [prevState EXCEPT ![key] = value]

\* addError(step, error): the list is built from the state of the render
\* that made the function.
addError(prevState, state, step, error) ==
  updateSimulationState(prevState, "errors",
                        Append(state.errors, [step |-> step, error |-> error]))

\* addWarning(step, warning)
addWarning(prevState, state, step, warning) ==
  updateSimulationState(prevState, "warnings",
                        Append(state.warnings, [step |-> step, warning |-> warning]))

\* The component renders: its functions read the state of this render from now on.
SimRender ==
  /\ rendered # sim
  /\ rendered' = sim
  /\ simCall' = SimCalled("render", <<>>, 0)
  /\ UNCHANGED <<sim, uploads, dash>>

\* A caller calls addError(step, error).
AddError(step, error) ==
  /\ Len(rendered.errors) < MaxEntries
  /\ sim' = addError(sim, rendered, step, error)
  /\ simCall' = SimCalled("addError", <<[step |-> step, error |-> error]>>, 0)
  /\ UNCHANGED <<rendered, uploads, dash>>

\* A caller calls addWarning(step, warning).
AddWarning(step, warning) ==
  /\ Len(rendered.warnings) < MaxEntries
  /\ sim' = addWarning(sim, rendered, step, warning)
  /\ simCall' = SimCalled("addWarning", <<[step |-> step, warning |-> warning]>>, 0)
  /\ UNCHANGED <<rendered, uploads, dash>>

\* File ids: `temp_${Date.now()}` of an upload, the file_id of the server,
\* `file-${Date.now()}-${i}` of the dashboard.
TempId(u) == <<"temp_", u>>
FileId(u) == <<"file_id", u>>
DashId(i) == <<"file-", i>>

Uploading(id) == [id |-> id, uploadStatus |-> "uploading"]

\* cadFiles.map(f => f.id === id ? {...f, id: newId, uploadStatus} : f)
MarkFile(cadFiles, id, newId, uploadStatus) ==
  [i \in 1..Len(cadFiles) |->
     IF cadFiles[i].id = id THEN [id |-> newId, uploadStatus |-> uploadStatus]
     ELSE cadFiles[i]]

\* cadFiles.map(f => f.id.startsWith('temp_') ? {...f, uploadStatus: 'failed'} : f)
FailTemporary(cadFiles) ==
  [i \in 1..Len(cadFiles) |->
     IF cadFiles[i].id[1] = "temp_" THEN [cadFiles[i] EXCEPT !.uploadStatus = "failed"]
     ELSE cadFiles[i]]

\* handleFileUpload of useSimulationActions, up to the await of fetch: the
\* file is listed as uploading. The call keeps the simulationState of the
\* render that made it. The history `before` keeps the list before the call.
UploadStart(u) ==
  /\ uploads[u].pc = "idle"
  /\ \A v \in Uploads : v < u => uploads[v].pc # "idle"
  /\ sim' = updateSimulationState(sim, "cadFiles",
                                  Append(rendered.cadFiles, Uploading(TempId(u))))
  /\ uploads' = [uploads EXCEPT ![u] = [pc |-> "awaiting", seen |-> rendered,
                                         before |-> sim.cadFiles]]
  /\ simCall' = SimCalled("handleFileUpload", <<>>, u)
  /\ UNCHANGED <<rendered, dash>>

\* The catch block of handleFileUpload: temporary files are marked failed,
\* then addError('file_upload', message).
UploadCaught(u) ==
  /\ sim' = addError(updateSimulationState(sim, "cadFiles",
                                           FailTemporary(uploads[u].seen.cadFiles)),
                     uploads[u].seen, "file_upload", "Upload failed")
  /\ uploads' = [uploads EXCEPT ![u].pc = "failed"]
  /\ simCall' = SimCalled("upload failed", <<>>, u)
  /\ UNCHANGED <<rendered, dash>>

\* fetch('/api/files/upload') settles: an OK response with the file_id, or
\* a network error or a response that is not OK.
UploadResponse(u, ok) ==
  /\ uploads[u].pc = "awaiting"
  /\ IF ok
     THEN /\ sim' = updateSimulationState(sim, "cadFiles",
                      MarkFile(uploads[u].seen.cadFiles, TempId(u), FileId(u), "completed"))
          /\ uploads' = [uploads EXCEPT ![u].pc = "stored"]
          /\ simCall' = SimCalled("upload stored", <<>>, u)
          /\ UNCHANGED <<rendered, dash>>
     ELSE UploadCaught(u)

\* archonService.addKnowledge settles: the call finishes, or it throws and
\* the catch block runs.
KnowledgeSettles(u, ok) ==
  /\ uploads[u].pc = "stored"
  /\ IF ok
     THEN /\ uploads' = [uploads EXCEPT ![u].pc = "completed"]
          /\ simCall' = SimCalled("upload completed", <<>>, u)
          /\ UNCHANGED <<sim, rendered, dash>>
     ELSE UploadCaught(u)

\* handleFileUpload of the dashboard for a list of n files: every turn of the
\* loop lists its file after the files of the render and starts a 2s timer.
DashboardUpload(n) ==
  /\ dash.drops < MaxDrops
  /\ sim' = updateSimulationState(sim, "cadFiles",
                                  Append(rendered.cadFiles, Uploading(DashId(n))))
  /\ dash' = [drops |-> dash.drops + 1,
              timers |-> dash.timers \cup
                 {[id |-> DashId(i), seen |-> rendered.cadFiles] : i \in 1..n}]
  /\ simCall' = SimCalled("dashboard upload", <<>>, 0)
  /\ UNCHANGED <<rendered, uploads>>

\* A timer of the dashboard fires: its file is marked completed in the list
\* of the render that started it.
DashboardTimer(t) ==
  /\ t \in dash.timers
  /\ sim' = updateSimulationState(sim, "cadFiles",
                                  MarkFile(t.seen, t.id, t.id, "completed"))
  /\ dash' = [dash EXCEPT !.timers = @ \ {t}]
  /\ simCall' = SimCalled("dashboard timer", <<>>, 0)
  /\ UNCHANGED <<rendered, uploads>>

\* The error and warning lists between renders.
SimNext ==
  \/ SimRender /\ UNCHANGED otherThanSim
  \/ \E step \in EntrySteps : AddError(step, "Error 1") /\ UNCHANGED otherThanSim
  \/ \E step \in EntrySteps : AddWarning(step, "Warning 1") /\ UNCHANGED otherThanSim

\* The uploads of CAD files between renders.
UploadNext ==
  \/ SimRender /\ UNCHANGED otherThanSim
  \/ \E u \in Uploads : UploadStart(u) /\ UNCHANGED otherThanSim
  \/ \E u \in Uploads, ok \in BOOLEAN : UploadResponse(u, ok) /\ UNCHANGED otherThanSim
  \/ \E u \in Uploads, ok \in BOOLEAN : KnowledgeSettles(u, ok) /\ UNCHANGED otherThanSim
  \/ \E n \in 1..2 : DashboardUpload(n) /\ UNCHANGED otherThanSim
  \/ \E t \in dash.timers : DashboardTimer(t) /\ UNCHANGED otherThanSim

\* ------------------------------------------- the HITLCheckpoint modal
MaxClicks == 2

Feedbacks == {"", "redo mesh"}

ModalInit ==
  /\ modal = [activeCheckpoint |-> TRUE, isSubmitting |-> FALSE, clicks |-> 0,
              feedback |-> "", ws |-> "none", rest |-> "none", alerts |-> 0, last |-> "init"]
  /\ record = [status |-> "pending", applied |-> 0, resumed |-> 0]

\* respond(checkpoint_id, approved, feedback) of the HITL Checkpoint Manager
\* on the record: AlreadyResolved unless it is pending; on success the
\* response is applied and the engine is told to resume.
RecordRespond(r, approved) ==
  IF r.status # "pending" THEN r
  ELSE [status |-> IF approved THEN "approved" ELSE "rejected",
        applied |-> r.applied + 1, resumed |-> r.resumed + 1]

\* handleApprove / handleReject: the response goes out as a
\* hitl_response_submitted message, when the socket is connected, and as a
\* REST call. handleReject without feedback alerts and sends nothing.
Submit(approved, feedback, isConnected) ==
  /\ modal.activeCheckpoint
  /\ ~modal.isSubmitting
  /\ modal.clicks < MaxClicks
  /\ modal.ws \notin {"approve", "reject"}
  /\ IF ~approved /\ feedback = ""
     THEN modal' = [modal EXCEPT !.alerts = @ + 1, !.clicks = @ + 1,
                                 !.last = "feedback required"]
     ELSE modal' = [modal EXCEPT
            !.isSubmitting = TRUE,
            !.clicks = @ + 1,
            !.feedback = feedback,
            !.ws = IF isConnected THEN (IF approved THEN "approve" ELSE "reject") ELSE "none",
            !.rest = IF approved THEN "approve" ELSE "reject",
            !.last = "submitted"]
  /\ UNCHANGED record

\* The hitl_response_submitted message reaches the manager.
MessageArrives ==
  /\ modal.ws \in {"approve", "reject"}
  /\ record' = RecordRespond(record, modal.ws = "approve")
  /\ modal' = [modal EXCEPT !.ws = "none", !.last = "message arrived"]

\* The REST call reaches the manager, or fails on the way: the reply is OK
\* when respond succeeded.
RestArrives(delivered) ==
  /\ modal.rest \in {"approve", "reject"}
  /\ record' = IF delivered THEN RecordRespond(record, modal.rest = "approve") ELSE record
  /\ modal' = [modal EXCEPT
       !.rest = IF delivered /\ record.status = "pending" THEN "ok" ELSE "failed",
       !.last = "rest arrived"]

\* The await of fetch returns in handleApprove / handleReject: on an OK
\* response activeCheckpoint is cleared, otherwise the failure is alerted.
ReplyHandled ==
  /\ modal.rest \in {"ok", "failed"}
  /\ modal' = [modal EXCEPT
       !.activeCheckpoint = IF modal.rest = "ok" THEN FALSE ELSE @,
       !.alerts = IF modal.rest = "ok" THEN @ ELSE @ + 1,
       !.isSubmitting = FALSE,
       !.rest = "none",
       !.last = IF modal.rest = "ok" THEN "cleared" ELSE "alerted"]
  /\ UNCHANGED record

ModalNext ==
  \/ \E approved \in BOOLEAN, feedback \in Feedbacks, isConnected \in BOOLEAN :
       Submit(approved, feedback, isConnected) /\ UNCHANGED otherThanModal
  \/ MessageArrives /\ UNCHANGED otherThanModal
  \/ \E delivered \in BOOLEAN : RestArrives(delivered) /\ UNCHANGED otherThanModal
  \/ ReplyHandled /\ UNCHANGED otherThanModal

\* ------------------------------------------------------ useWorkflow
MaxShown == 2
MaxSent == 2

MirrorIds == {"w1", "w2"}
ShownIds == {"c1", "c2"}
WorkflowStatuses == {"running", "paused", "completed", "failed"}
StepNames == {"geometry"}

\* The steps of an entry: a list, or undefined.
UndefinedSteps == [defined |-> FALSE, list |-> <<>>]
StepList(list) == [defined |-> TRUE, list |-> list]

\* No entry of workflows under a key; currentWorkflow when it is null.
NoWorkflow == [workflowId |-> "none", status |-> "none", steps |-> UndefinedSteps]

NoRespond == [checkpointId |-> "none", approved |-> FALSE, isConnected |-> FALSE]

WfCalled(op, id, returned) == [op |-> op, id |-> id, returned |-> returned]

WfInit ==
  /\ workflows = [id \in MirrorIds |-> NoWorkflow]
  /\ currentWorkflow = NoWorkflow
  /\ hitlCheckpoints = <<>>
  /\ wf = [mounted |-> "no", error |-> "null", threw |-> "no", pending |-> NoRespond,
             api |-> "none", sent |-> <<>>, last |-> WfCalled("none", "none", "none")]

\* The first render. The dependency list of respondToHITL names sendMessage,
\* which the file declares nowhere: where no such global exists the render
\* throws a ReferenceError and the wf returns nothing.
WfMount ==
  /\ wf.mounted = "no"
  /\ wf' = [wf EXCEPT !.mounted = "yes"]
  /\ UNCHANGED <<workflows, currentWorkflow, hitlCheckpoints>>

WfRenderThrows ==
  /\ wf.mounted = "no"
  /\ wf' = [wf EXCEPT !.mounted = "crashed", !.threw = "render"]
  /\ UNCHANGED <<workflows, currentWorkflow, hitlCheckpoints>>

\* {...prev[workflow_id], ...}: a field of an entry, undefined without one.
Spread(prev, id, field) ==
  IF prev[id] # NoWorkflow THEN prev[id][field]
  ELSE IF field = "steps" THEN UndefinedSteps ELSE "undefined"

handleWorkflowStatusUpdate(prev, workflow_id, status) ==
  [prev EXCEPT ![workflow_id] =
     [workflowId |-> workflow_id, status |-> status,
      steps |-> Spread(prev, workflow_id, "steps")]]

markStep(steps, step_name) ==
  StepList([i \in DOMAIN steps.list |->
     IF steps.list[i].name = step_name
     THEN [steps.list[i] EXCEPT !.status = "completed"]
     ELSE steps.list[i]])

\* workflow.steps.map throws a TypeError when steps is undefined.
handleWorkflowStepComplete(prev, workflow_id, step_name) ==
  IF prev[workflow_id] = NoWorkflow THEN [threw |-> FALSE, workflows |-> prev]
  ELSE IF ~prev[workflow_id].steps.defined THEN [threw |-> TRUE, workflows |-> prev]
  ELSE [threw |-> FALSE,
        workflows |-> [prev EXCEPT ![workflow_id].steps = markStep(@, step_name)]]

handleWorkflowError(prev, workflow_id) ==
  [prev EXCEPT ![workflow_id] =
     [workflowId |-> Spread(prev, workflow_id, "workflowId"), status |-> "failed",
      steps |-> Spread(prev, workflow_id, "steps")]]

\* The callbacks update currentWorkflow when its workflowId matches.
IsCurrent(workflow_id) ==
  currentWorkflow # NoWorkflow /\ currentWorkflow.workflowId = workflow_id

\* startWorkflow with an OK response carrying a new workflow_id.
StartWorkflow(workflowId) ==
  /\ wf.mounted = "yes"
  /\ workflows[workflowId] = NoWorkflow
  /\ LET newWorkflow == [workflowId |-> workflowId, status |-> "running", steps |-> StepList(<<>>)]
     IN /\ workflows' = [workflows EXCEPT ![workflowId] = newWorkflow]
        /\ currentWorkflow' = newWorkflow
  /\ wf' = [wf EXCEPT !.error = "null", !.last = WfCalled("startWorkflow", workflowId, workflowId)]
  /\ UNCHANGED hitlCheckpoints

\* getWorkflowStatus with an OK response: the entry is replaced by the
\* server's status, steps: data.steps || [].
GetWorkflowStatus(workflowId, status, steps) ==
  /\ wf.mounted = "yes"
  /\ workflows' = [workflows EXCEPT ![workflowId] =
                     [workflowId |-> workflowId, status |-> status, steps |-> StepList(steps)]]
  /\ wf' = [wf EXCEPT !.last = WfCalled("getWorkflowStatus", workflowId, "status")]
  /\ UNCHANGED <<currentWorkflow, hitlCheckpoints>>

\* A workflow_status_update message.
WorkflowStatusUpdate(workflow_id, status) ==
  /\ wf.mounted = "yes"
  /\ workflows' = handleWorkflowStatusUpdate(workflows, workflow_id, status)
  /\ currentWorkflow' = IF IsCurrent(workflow_id)
                        THEN [currentWorkflow EXCEPT !.status = status]
                        ELSE currentWorkflow
  /\ wf' = [wf EXCEPT !.last = WfCalled("workflow_status_update", workflow_id, "done")]
  /\ UNCHANGED hitlCheckpoints

\* A workflow_step_complete message. An updater that throws takes the
\* component down with it.
WorkflowStepComplete(workflow_id, step_name) ==
  /\ wf.mounted = "yes"
  /\ LET next == handleWorkflowStepComplete(workflows, workflow_id, step_name)
     IN IF next.threw
        THEN /\ wf' = [wf EXCEPT !.mounted = "crashed", !.threw = "TypeError",
                                     !.last = WfCalled("workflow_step_complete", workflow_id, "threw")]
             /\ UNCHANGED <<workflows, currentWorkflow>>
        ELSE /\ workflows' = next.workflows
             /\ currentWorkflow' = IF IsCurrent(workflow_id)
                                   THEN [currentWorkflow EXCEPT !.steps = markStep(@, step_name)]
                                   ELSE currentWorkflow
             /\ wf' = [wf EXCEPT !.last = WfCalled("workflow_step_complete", workflow_id, "done")]
  /\ UNCHANGED hitlCheckpoints

\* A hitl_checkpoint_created message: checkpoint_data.checkpoint_type throws
\* a TypeError when the data carry no checkpoint_data; onmessage of
\* useWebSocket catches what the handler throws.
HITLCheckpointCreated(workflow_id, checkpoint_id, hasData) ==
  /\ wf.mounted = "yes"
  /\ Len(hitlCheckpoints) < MaxShown
  /\ IF hasData
     THEN /\ hitlCheckpoints' = Append(hitlCheckpoints,
                [checkpointId |-> checkpoint_id, workflowId |-> workflow_id, status |-> "pending"])
          /\ wf' = [wf EXCEPT !.last = WfCalled("hitl_checkpoint_created", checkpoint_id, "done")]
     ELSE /\ hitlCheckpoints' = hitlCheckpoints
          /\ wf' = [wf EXCEPT !.threw = "TypeError",
                                  !.last = WfCalled("hitl_checkpoint_created", checkpoint_id, "threw")]
  /\ UNCHANGED <<workflows, currentWorkflow>>

\* A workflow_error message.
WorkflowError(workflow_id) ==
  /\ wf.mounted = "yes"
  /\ workflows' = handleWorkflowError(workflows, workflow_id)
  /\ currentWorkflow' = IF IsCurrent(workflow_id)
                        THEN [currentWorkflow EXCEPT !.status = "failed"]
                        ELSE currentWorkflow
  /\ wf' = [wf EXCEPT !.error = "workflow error",
                          !.last = WfCalled("workflow_error", workflow_id, "done")]
  /\ UNCHANGED hitlCheckpoints

\* respondToHITL is called: the POST is under way. isConnected is the value
\* of the render the callback was made in.
RespondToHITL(checkpointId, approved, isConnected) ==
  /\ wf.mounted = "yes"
  /\ wf.pending = NoRespond
  /\ wf' = [wf EXCEPT
       !.pending = [checkpointId |-> checkpointId, approved |-> approved,
                    isConnected |-> isConnected],
       !.last = WfCalled("respondToHITL", checkpointId, "pending")]
  /\ UNCHANGED <<workflows, currentWorkflow, hitlCheckpoints>>

complete(prev, checkpointId) ==
  [i \in DOMAIN prev |->
     IF prev[i].checkpointId = checkpointId THEN [prev[i] EXCEPT !.status = "completed"] ELSE prev[i]]

\* What respondToHITL does once the fetch has settled: rejected ("network
\* error"), answered with a non-OK status, or answered OK.
respondToHITLOptimistic(h, checkpoints, outcome) ==
  LET p == h.pending
  IN [checkpoints |-> complete(checkpoints, p.checkpointId),
      wf |-> IF outcome = "ok"
               THEN [h EXCEPT !.pending = NoRespond,
                              !.last = WfCalled("respondToHITL", p.checkpointId, "true")]
               ELSE [h EXCEPT !.pending = NoRespond, !.error = "respond failed",
                              !.last = WfCalled("respondToHITL", p.checkpointId, "false")]]

respondToHITL(h, checkpoints, outcome) ==
  LET p == h.pending
  IN IF outcome = "ok"
     THEN [checkpoints |-> complete(checkpoints, p.checkpointId),
           wf |-> [h EXCEPT
              !.pending = NoRespond,
              !.sent = IF p.isConnected
                       THEN Append(@, [checkpoint_id |-> p.checkpointId, approved |-> p.approved])
                       ELSE @,
              !.last = WfCalled("respondToHITL", p.checkpointId, "true")]]
     ELSE [checkpoints |-> checkpoints,
           wf |-> [h EXCEPT !.pending = NoRespond, !.error = "respond failed",
                              !.last = WfCalled("respondToHITL", p.checkpointId, "false")]]

RespondSettles(outcome) ==
  /\ wf.mounted = "yes"
  /\ wf.pending # NoRespond
  /\ (outcome = "ok" /\ wf.pending.isConnected) => Len(wf.sent) < MaxSent
  /\ LET r == respondToHITL(wf, hitlCheckpoints, outcome)
     IN /\ hitlCheckpoints' = r.checkpoints
        /\ wf' = [r.wf EXCEPT !.api = outcome]
  /\ UNCHANGED <<workflows, currentWorkflow>>

ServerSteps == {<<>>, <<[name |-> "geometry", status |-> "pending"]>>}

WfNext ==
  \/ WfMount /\ UNCHANGED otherThanWf
  \/ WfRenderThrows /\ UNCHANGED otherThanWf
  \/ \E id \in MirrorIds : StartWorkflow(id) /\ UNCHANGED otherThanWf
  \/ \E id \in MirrorIds, status \in WorkflowStatuses, steps \in ServerSteps :
       GetWorkflowStatus(id, status, steps) /\ UNCHANGED otherThanWf
  \/ \E id \in MirrorIds, status \in WorkflowStatuses :
       WorkflowStatusUpdate(id, status) /\ UNCHANGED otherThanWf
  \/ \E id \in MirrorIds, step \in StepNames :
       WorkflowStepComplete(id, step) /\ UNCHANGED otherThanWf
  \/ \E id \in MirrorIds : WorkflowError(id) /\ UNCHANGED otherThanWf

HitlNext ==
  \/ WfMount /\ UNCHANGED otherThanWf
  \/ WfRenderThrows /\ UNCHANGED otherThanWf
  \/ \E c \in ShownIds, hasData \in BOOLEAN :
       HITLCheckpointCreated("w1", c, hasData) /\ UNCHANGED otherThanWf
  \/ \E c \in ShownIds, approved \in BOOLEAN, isConnected \in BOOLEAN :
       RespondToHITL(c, approved, isConnected) /\ UNCHANGED otherThanWf
  \/ \E outcome \in {"ok", "not ok", "network error"} :
       RespondSettles(outcome) /\ UNCHANGED otherThanWf

Init ==
  /\ store = {}
  /\ hitl = <<>>
  /\ registry = [t \in Threads |-> "any"]
  /\ pc = [t \in Threads |-> "none"]
  /\ mem = [t \in Threads |-> NoThread]
  /\ event = Ev("init", 0, "ok")
  /\ execCount = [t \in Threads |-> [s \in Steps |-> 0]]
  /\ lastSaved = [t \in Threads |-> NoThread]
  /\ fired = [c \in CheckpointIds |-> 0]
  /\ BootInit
  /\ CodecInit
  /\ ConnInit
  /\ WsInit
  /\ SimInit
  /\ ModalInit
  /\ WfInit

\* The thread_id start hands out next: ids are allocated in order.
FreshThread(t) == pc[t] = "none" /\ \A u \in Threads : u < t => pc[u] # "none"

\* start(initial_payload): create the thread, persist checkpoint 0, begin the loop.
Start(t, reg) ==
  /\ FreshThread(t)
  /\ reg = "any" => Budget
  /\ store' = Save(t, NewThread)
  /\ lastSaved' = [lastSaved EXCEPT ![t] = NewThread]
  /\ registry' = [registry EXCEPT ![t] = reg]
  /\ mem' = [mem EXCEPT ![t] = NewThread]
  /\ pc' = [pc EXCEPT ![t] = "ready"]
  /\ event' = Ev("start", t, "ok")
  /\ UNCHANGED <<hitl, execCount, fired>>

\* The thread's loop position and memory after the loop has handled a result
\* that left the thread in state w.
LoopAfter(t, w) ==
  /\ mem' = [mem EXCEPT ![t] = IF w.status = "running" THEN w ELSE NoThread]
  /\ pc' = [pc EXCEPT ![t] = IF w.status = "running" THEN "ready" ELSE "idle"]

\* Every in-flight loop and its memory are lost (process crash).
LoopsLost ==
  /\ pc' = [u \in Threads |-> IF pc[u] = "ready" THEN "idle" ELSE pc[u]]
  /\ mem' = [u \in Threads |-> NoThread]

\* The executor of current_step is invoked and returns r; for NeedsReview the
\* engine creates the HITL record. Enabled when the model bounds leave room.
Invoke(t, r) ==
  /\ pc[t] = "ready"
  /\ mem[t].status = "running"
  /\ Room(t)
  /\ execCount[t][mem[t].current_step] < MaxExecutions
  /\ r \in Execute(registry[t], mem[t].current_step, mem[t].payload)
  /\ r.kind = "NeedsReview" /\ MayCreate(t) => Len(hitl) < MaxRecords
  /\ execCount' = [execCount EXCEPT ![t][mem[t].current_step] = @ + 1]

Created(t, r) ==
  IF r.kind = "NeedsReview"
  THEN Append(hitl, NewRecord(t, mem[t].current_step))
  ELSE hitl

\* Mutant of Step: the step whose next_step is the terminal marker persists
\* its checkpoint and then a second, final one.
StepFinalTwice(t) ==
  \E r \in {StepResult(n) : n \in Steps \cup {TerminalMarker}} \cup {NeedsReview, StepFailure} :
    /\ Invoke(t, r)
    /\ MayCreate(t) \/ r.kind # "NeedsReview"
    /\ LET w == HandleResult(mem[t], r)
       IN /\ hitl' = Created(t, r)
          /\ store' = IF w.status = "completed"
                      THEN Save(t, w) \cup
                           {[thread_id |-> t, step_sequence_number |-> NextSeq(t) + 1,
                             state_snapshot |-> w]}
                      ELSE Save(t, w)
          /\ lastSaved' = [lastSaved EXCEPT ![t] = w]
          /\ LoopAfter(t, w)
          /\ event' = Ev("step", t, w.status)
    /\ UNCHANGED <<registry, fired>>

\* One turn of the step loop: invoke the executor, merge its result, persist
\* one checkpoint, report a completed step and go on or return to the caller.
\* A NeedsReview whose HITL create fails with DuplicatePending stops the loop
\* with that error and writes nothing.
Step(t) ==
  \E r \in {StepResult(n) : n \in Steps \cup {TerminalMarker}} \cup {NeedsReview, StepFailure} :
    /\ Invoke(t, r)
    /\ IF r.kind = "NeedsReview" /\ ~MayCreate(t)
       THEN /\ pc' = [pc EXCEPT ![t] = "idle"]
            /\ mem' = [mem EXCEPT ![t] = NoThread]
            /\ event' = Ev("step", t, "DuplicatePending")
            /\ UNCHANGED <<store, hitl, lastSaved>>
       ELSE LET w == HandleResult(mem[t], r)
            IN /\ hitl' = Created(t, r)
               /\ store' = Save(t, w)
               /\ lastSaved' = [lastSaved EXCEPT ![t] = w]
               /\ LoopAfter(t, w)
               /\ event' = Ev("step", t, w.status)
    /\ UNCHANGED <<registry, fired>>

\* Mutant of StepSaveFail: the in-memory loop advances although the write failed.
StepSaveFailAdvances(t) ==
  \E r \in {StepResult(n) : n \in Steps \cup {TerminalMarker}} \cup {NeedsReview, StepFailure} :
    /\ Invoke(t, r)
    /\ MayCreate(t) \/ r.kind # "NeedsReview"
    /\ hitl' = Created(t, r)
    /\ LoopAfter(t, HandleResult(mem[t], r))
    /\ event' = Ev("step", t, "StoreUnavailable")
    /\ UNCHANGED <<store, registry, lastSaved, fired>>

\* The same turn when the checkpoint write fails with StoreUnavailable: fatal
\* to the step; the caller gets workflow_error, the loop stops, no retry.
StepSaveFail(t) ==
  \E r \in {StepResult(n) : n \in Steps \cup {TerminalMarker}} \cup {NeedsReview, StepFailure} :
    /\ Invoke(t, r)
    /\ MayCreate(t) \/ r.kind # "NeedsReview"
    /\ hitl' = Created(t, r)
    /\ pc' = [pc EXCEPT ![t] = "idle"]
    /\ mem' = [mem EXCEPT ![t] = NoThread]
    /\ event' = Ev("step", t, "StoreUnavailable")
    /\ UNCHANGED <<store, registry, lastSaved, fired>>

\* The same turn when the process crashes after the checkpoint write has
\* succeeded and before the in-memory loop advances.
StepCrash(t) ==
  \E r \in {StepResult(n) : n \in Steps \cup {TerminalMarker}} \cup {NeedsReview, StepFailure} :
    /\ Invoke(t, r)
    /\ MayCreate(t) \/ r.kind # "NeedsReview"
    /\ hitl' = Created(t, r)
    /\ store' = Save(t, HandleResult(mem[t], r))
    /\ lastSaved' = [lastSaved EXCEPT ![t] = HandleResult(mem[t], r)]
    /\ LoopsLost
    /\ event' = Ev("crash", t, "after save")
    /\ UNCHANGED <<registry, fired>>

\* Mutant of ResumeOutcome: only completed threads are refused, untyped.
ResumeOutcomeLax(found, w) ==
  IF ~found THEN "ThreadNotFound"
  ELSE IF w.status = "completed" THEN "InvalidResumeState"
  ELSE "ok"

\* The outcome of resume(thread_id) when the latest checkpoint is w.
ResumeOutcome(found, w) ==
  IF ~found THEN "ThreadNotFound"
  ELSE IF w.status = "paused_for_review" THEN "ok"
  ELSE IF w.status = "failed" THEN "WorkflowTerminal"
  ELSE "InvalidResumeState"

LoopInFlight(t) == pc[t] = "ready"

\* resume(thread_id), called while no loop is in flight for the thread
\* (single-writer discipline): reload the latest checkpoint and continue.
Resume(t) ==
  /\ ~LoopInFlight(t)
  /\ pc[t] = "none" => FreshThread(t)
  /\ LET out == ResumeOutcome(HasCheckpoint(t), Durable(t))
     IN /\ event' = Ev("resume", t, out)
        /\ IF out = "ok"
           THEN /\ mem' = [mem EXCEPT ![t] = [Durable(t) EXCEPT !.status = "running"]]
                /\ pc' = [pc EXCEPT ![t] = "ready"]
           ELSE UNCHANGED <<mem, pc>>
  /\ UNCHANGED <<store, hitl, registry, execCount,
                 lastSaved, fired>>

\* respond(checkpoint_id, approved, feedback): resolve the record, merge the
\* response into the owning thread's payload, signal resume(thread_id).
\* Mutant of RespondOutcome: the record's status is not checked.
RespondOutcomeUnchecked(c) ==
  IF c > Len(hitl) THEN "NotFound" ELSE "ok"

\* The outcome of respond(checkpoint_id, ...): NotFound, AlreadyResolved or ok.
RespondOutcome(c) ==
  IF c > Len(hitl) THEN "NotFound"
  ELSE IF hitl[c].status # "pending" THEN "AlreadyResolved"
  ELSE "ok"

Respond(c, resp) ==
  LET out == RespondOutcome(c)
  IN IF out # "ok"
     THEN /\ event' = EvR("respond", 0, c, out, "n/a")
          /\ UNCHANGED <<store, hitl, registry, pc, mem,
                         execCount, lastSaved, fired>>
     ELSE LET t == hitl[c].thread_id
              merged == MergeResponse(Durable(t), resp)
              resumed == ResumeOutcome(TRUE, merged)
          IN /\ ~LoopInFlight(t)
             /\ Room(t)
             /\ hitl' = [hitl EXCEPT ![c].status = IF resp.approved THEN "approved"
                                                   ELSE "rejected",
                                     ![c].reviewer_feedback = resp.feedback,
                                     ![c].resolved = TRUE]
             /\ store' = Save(t, merged)
             /\ lastSaved' = [lastSaved EXCEPT ![t] = merged]
             /\ IF resumed = "ok"
                THEN /\ mem' = [mem EXCEPT ![t] = [merged EXCEPT !.status = "running"]]
                     /\ pc' = [pc EXCEPT ![t] = "ready"]
                     /\ fired' = [fired EXCEPT ![c] = @ + 1]
                ELSE UNCHANGED <<mem, pc, fired>>
             /\ event' = EvR("respond", t, c, "ok", resumed)
             /\ UNCHANGED <<registry, execCount>>

\* expire(checkpoint_id), called by the external scheduler for a record past
\* its timeout_at: the record becomes timed_out and (default policy) the owning
\* workflow fails. On a record that is not pending it has no effect.
Expire(c) ==
  /\ RespondOutcome(c) = "ok"
  /\ LET t == hitl[c].thread_id
         failed == Fail(Durable(t), "review timed out")
     IN /\ ~LoopInFlight(t)
        /\ Room(t)
        /\ hitl' = [hitl EXCEPT ![c].status = "timed_out", ![c].resolved = TRUE]
        /\ store' = Save(t, failed)
        /\ lastSaved' = [lastSaved EXCEPT ![t] = failed]
        /\ fired' = [fired EXCEPT ![c] = @ + 1]
        /\ event' = EvR("expire", t, c, "ok", "n/a")
        /\ UNCHANGED <<registry, pc, mem, execCount>>

\* Cancellation of a running or paused thread: a forced transition to failed
\* with a recorded reason, persisted as a checkpoint.
Cancel(t) ==
  /\ pc[t] \in {"idle", "ready"}
  /\ Durable(t).status \in {"running", "paused_for_review"}
  /\ Room(t)
  /\ store' = Save(t, Fail(Durable(t), "cancelled"))
  /\ lastSaved' = [lastSaved EXCEPT ![t] = Fail(Durable(t), "cancelled")]
  /\ mem' = [mem EXCEPT ![t] = NoThread]
  /\ pc' = [pc EXCEPT ![t] = "idle"]
  /\ event' = Ev("cancel", t, "ok")
  /\ UNCHANGED <<hitl, registry, execCount, fired>>

\* The process crashes between two turns of a loop: every in-flight loop and
\* its memory are lost; the Checkpoint Store and the HITL records are durable.
Crash ==
  /\ \E t \in Threads : LoopInFlight(t)
  /\ LoopsLost
  /\ event' = Ev("crash", 0, "ok")
  /\ UNCHANGED <<store, hitl, registry, execCount, lastSaved, fired>>

Next ==
  \/ \E t \in Threads : Start(t, "any") /\ UNCHANGED otherThanEngine
  \/ \E t \in Threads : Step(t) /\ UNCHANGED otherThanEngine
  \/ \E t \in Threads : StepSaveFail(t) /\ UNCHANGED otherThanEngine
  \/ \E t \in Threads : StepCrash(t) /\ UNCHANGED otherThanEngine
  \/ \E t \in Threads : Resume(t) /\ UNCHANGED otherThanEngine
  \/ \E c \in CheckpointIds, resp \in Responses : Respond(c, resp) /\ UNCHANGED otherThanEngine
  \/ \E c \in CheckpointIds : Expire(c) /\ UNCHANGED otherThanEngine
  \/ \E t \in Threads : Cancel(t) /\ UNCHANGED otherThanEngine
  \/ Crash /\ UNCHANGED otherThanEngine

Spec == Init /\ [][Next]_vars

\* The end-to-end scenario: threads on the registry "e2e", no faults, the
\* reviewer approves. The step loop runs whenever it has a step to take.
E2ENext ==
  \/ \E t \in Threads : Start(t, "e2e") /\ UNCHANGED otherThanEngine
  \/ \E t \in Threads : Step(t) /\ UNCHANGED otherThanEngine
  \/ \E c \in CheckpointIds : Respond(c, [approved |-> TRUE, feedback |-> "none"]) /\ UNCHANGED otherThanEngine

E2ESpec == Init /\ [][E2ENext]_vars /\ \A t \in Threads : WF_vars(Step(t) /\ UNCHANGED otherThanEngine)

\* The rejection scenario: the same setup, and the reviewer may also reject
\* with feedback "redo mesh".
RejectionNext ==
  \/ \E t \in Threads : Start(t, "e2e") /\ UNCHANGED otherThanEngine
  \/ \E t \in Threads : Step(t) /\ UNCHANGED otherThanEngine
  \/ \E c \in CheckpointIds, resp \in Responses : Respond(c, resp) /\ UNCHANGED otherThanEngine

RejectionSpec == Init /\ [][RejectionNext]_vars /\ \A t \in Threads : WF_vars(Step(t) /\ UNCHANGED otherThanEngine)

\* Runs that consist of start and turns of the step loop only, with arbitrary
\* executors.
StepsNext ==
  \/ \E t \in Threads : Start(t, "any") /\ UNCHANGED otherThanEngine
  \/ \E t \in Threads : Step(t) /\ UNCHANGED otherThanEngine

StepsSpec == Init /\ [][StepsNext]_vars

BootSpec == Init /\ [][BootNext]_vars

CodecSpec == Init /\ [][CodecNext]_vars

WsSpec == Init /\ [][WsNext]_vars

WsMsgSpec == Init /\ [][WsMsgNext]_vars

ConnSpec == Init /\ [][ConnNext]_vars

SimSpec == Init /\ [][SimNext]_vars

ModalSpec == Init /\ [][ModalNext]_vars

WfSpec == Init /\ [][WfNext]_vars

HitlSpec == Init /\ [][HitlNext]_vars

UploadSpec == Init /\ [][UploadNext]_vars

\* ------------------------------------------------------------------ claims
SeqsOf(t) == {c.step_sequence_number : c \in CheckpointsOf(t)}
RecordsOf(t) == {c \in 1..Len(hitl) : hitl[c].thread_id = t}

\* C1: every thread has at most one pending HITLCheckpointRecord; a create
\* that finds one pending fails with DuplicatePending and adds no record, a
\* record is only ever added for a thread with none pending, and a create for
\* a thread whose records are all resolved does not fail.
C1_AtMostOnePending ==
  /\ [](\A t \in Threads : Cardinality(PendingOf(t)) <= 1)
  /\ [][/\ event'.result = "DuplicatePending" =>
              hitl' = hitl /\ PendingOf(event'.thread) # {}
        /\ Len(hitl') > Len(hitl) =>
              /\ Len(hitl') = Len(hitl) + 1
              /\ PendingOf(hitl'[Len(hitl')].thread_id) = {}
              /\ hitl'[Len(hitl')].status = "pending"
              /\ \A c \in 1..Len(hitl) : hitl'[c] = hitl[c]]_vars

\* C1 witness: a thread whose first record was resolved by respond got a second,
\* pending one, and a further create for it has just failed.
C1_Witness ==
  /\ event.result = "DuplicatePending"
  /\ \E c1, c2 \in RecordsOf(event.thread) :
       /\ c1 < c2
       /\ hitl[c1].status \in {"approved", "rejected"}
       /\ hitl[c2].status = "pending"

\* C2: per thread the sequence numbers handed out are 0, 1, 2, ... (strictly
\* increasing, one checkpoint per number), a save adds exactly one checkpoint
\* above all earlier ones of its thread and leaves every existing checkpoint
\* as it was, and load_latest returns the snapshot saved last for the thread.
C2_CheckpointMonotonic ==
  /\ [](\A t \in Threads :
          /\ SeqsOf(t) = 0..(Cardinality(CheckpointsOf(t)) - 1)
          /\ Cardinality(SeqsOf(t)) = Cardinality(CheckpointsOf(t))
          /\ HasCheckpoint(t) => LoadLatest(t) = lastSaved[t])
  /\ [][/\ store \subseteq store'
        /\ Cardinality(store' \ store) <= 1
        /\ \A n \in store' \ store : \A c \in store :
             c.thread_id = n.thread_id => c.step_sequence_number < n.step_sequence_number]_vars

\* C2 witness: both threads hold several checkpoints, written interleaved.
C2_Witness ==
  /\ \A t \in Threads : Cardinality(CheckpointsOf(t)) >= 2
  /\ \E t \in Threads : LoadLatest(t).completed_steps # <<>>

C4_SaveFailureIsFatal ==
  [][\A t \in Threads :
       (event'.result = "StoreUnavailable" /\ event'.thread = t) =>
          /\ event'.op = "step"
          /\ store' = store
          /\ (Durable(t))' = Durable(t)
          /\ lastSaved' = lastSaved
          /\ pc[t] = "ready" /\ pc'[t] = "idle" /\ mem'[t] = NoThread
          /\ execCount'[t][mem[t].current_step] = execCount[t][mem[t].current_step] + 1
          /\ \A u \in Threads \ {t} : pc'[u] = pc[u] /\ mem'[u] = mem[u]]_vars

\* C4 witness: the write of a later step of a thread has just failed.
C4_Witness ==
  /\ event.op = "step" /\ event.result = "StoreUnavailable"
  /\ Durable(event.thread).completed_steps # <<>>
  /\ Durable(event.thread).status = "running"

\* C5: once the durable status of a thread is completed or failed, no
\* operation changes any field of the thread.
C5_TerminalImmutable ==
  [][\A t \in Threads : Terminal(Durable(t)) => (Durable(t))' = Durable(t)]_vars

\* C6: resume(thread_id) proceeds exactly when the latest checkpoint is
\* paused_for_review, continuing from that checkpoint; otherwise it returns
\* ThreadNotFound (no checkpoint), WorkflowTerminal (failed) or
\* InvalidResumeState (running, completed) and changes nothing: no checkpoint,
\* no executor invocation, no change of any thread or record. The same holds
\* of the resume that a successful respond signals.
ExpectedResume(found, status) ==
  IF ~found THEN "ThreadNotFound"
  ELSE CASE status = "paused_for_review" -> "ok"
         [] status = "failed" -> "WorkflowTerminal"
         [] status \in {"running", "completed"} -> "InvalidResumeState"
         [] OTHER -> "unexpected"

C7_ResolvedOnce ==
  /\ [](\A c \in CheckpointIds :
          /\ fired[c] <= 1
          /\ fired[c] = 1 => c <= Len(hitl) /\ hitl[c].status # "pending")
  /\ [][/\ \A c \in 1..Len(hitl) : hitl[c].status # "pending" => hitl'[c] = hitl[c]
        /\ event'.op = "respond" =>
             LET c == event'.checkpoint_id
             IN /\ event'.result = (IF c > Len(hitl) THEN "NotFound"
                                    ELSE IF hitl[c].status = "pending" THEN "ok"
                                    ELSE "AlreadyResolved")
                /\ event'.result # "ok" =>
                     UNCHANGED <<store, hitl, registry, pc, mem, execCount, lastSaved, fired>>
        /\ (event'.op \in {"respond", "expire"} /\ event'.result = "ok") =>
             LET c == event'.checkpoint_id
             IN /\ hitl[c].status = "pending" /\ hitl'[c].status # "pending"
                /\ lastSaved[hitl[c].thread_id].status = "paused_for_review"
                     => fired[c] = 0 /\ fired'[c] = 1]_vars

\* C7 witness: a record was timed out and resumed or failed its workflow
\* once, and a respond that raced with the expire has just been refused.
C7_Witness ==
  /\ event.op = "respond" /\ event.result = "AlreadyResolved"
  /\ hitl[event.checkpoint_id].status = "timed_out"
  /\ fired[event.checkpoint_id] = 1

\* C8: the executor of a step is invoked at most max_iterations + 1 times in a
\* thread: the re-entry after that fails the workflow instead.
C8_IterationBound ==
  \A t \in Threads : \A st \in Steps : execCount[t][st] <= MaxIterations + 1

\* C9: progress_percent of every checkpoint lies in 0..100, and from one
\* checkpoint of a running thread to the next it does not decrease.
C9_ProgressRange ==
  /\ [](\A c \in store : c.state_snapshot.progress_percent \in 0..100)
  /\ [][\A t \in Threads :
          (HasCheckpoint(t) /\ Durable(t).status = "running")
          => (Durable(t))'.progress_percent >= Durable(t).progress_percent]_vars

\* C10: in the 3-step workflow whose mesh step asks for review, the started
\* thread comes to rest paused_for_review with a pending record and
\* progress_percent 33 (only geometry completed); once the approval has been
\* merged the engine resumes, runs physics once, and ends completed with
\* progress_percent 100 and completed_steps geometry, mesh, physics.
C10_Paused(t) ==
  /\ pc[t] = "idle"
  /\ Durable(t).status = "paused_for_review"
  /\ PendingOf(t) # {}
  /\ Durable(t).progress_percent = 33
  /\ Durable(t).completed_steps = <<"geometry">>

C10_Completed(t) ==
  /\ pc[t] = "idle"
  /\ Durable(t).status = "completed"
  /\ Durable(t).progress_percent = 100
  /\ Durable(t).completed_steps = <<"geometry", "mesh", "physics">>
  /\ execCount[t]["physics"] = 1
  /\ PendingOf(t) = {}

C10_EndToEnd ==
  \A t \in Threads :
    /\ (pc[t] = "ready" /\ mem[t].payload.approved = "unset") ~> C10_Paused(t)
    /\ (pc[t] = "ready" /\ mem[t].payload.approved = "yes") ~> C10_Completed(t)
    /\ [](Durable(t).status = "completed" => Durable(t).progress_percent = 100)

\* C10 witness: a thread has been approved and has run to completion.
C10_Witness ==
  \E t \in Threads :
    /\ C10_Completed(t)
    /\ \E c \in RecordsOf(t) : hitl[c].status = "approved"

\* C11: a successful respond merges {approved, feedback} into the payload the
\* resumed loop starts from and leaves current_step as it was, whether the
\* reviewer approved or rejected; and the turn the loop takes after a
\* rejection re-enters that step and adds one occurrence of it to
\* completed_steps.
C11_RejectionReenters ==
  [][\A t \in Threads :
       /\ (event'.op = "respond" /\ event'.result = "ok" /\ event'.thread = t
            /\ event'.resume = "ok") =>
            LET c == event'.checkpoint_id
            IN /\ pc'[t] = "ready"
               /\ mem'[t].current_step = Durable(t).current_step
               /\ mem'[t].payload.feedback = hitl'[c].reviewer_feedback
               /\ mem'[t].payload.approved =
                    (IF hitl'[c].status = "approved" THEN "yes" ELSE "no")
               /\ mem'[t] = [Durable(t) EXCEPT !.status = "running",
                                !.payload.approved = mem'[t].payload.approved,
                                !.payload.feedback = mem'[t].payload.feedback]
       /\ (event.op = "respond" /\ event.resume = "ok" /\ event.thread = t
            /\ mem[t].payload.approved = "no"
            /\ event'.op = "step" /\ event'.thread = t) =>
            LET st == Durable(t).current_step
            IN /\ mem[t].current_step = st
               /\ execCount'[t][st] = execCount[t][st] + 1
               /\ Count(st, (Durable(t))'.completed_steps)
                    = Count(st, Durable(t).completed_steps) + 1]_vars

\* C12: every turn of the step loop that handles its executor's result as
\* StepResult, NeedsReview or StepFailure invokes one executor and writes
\* exactly one checkpoint, of its own thread, also when next_step is the
\* terminal marker; so a thread that was started and has handled n steps has
\* exactly n + 1 checkpoints.
Invocations(t) == execCount[t]["geometry"] + execCount[t]["mesh"] + execCount[t]["physics"]

C13_NoEngineWithoutStore ==
  /\ [](engine.graph \in {"none", "persistent"})
  /\ [](engine.graph = "persistent" => engine.valid)
  /\ [](\A w \in Workflows : runs[w].saved = runs[w].steps)

\* C14 as stated: for every message type and every data mapping, decoding the
\* serialized result of createStandardMessage(type, data) yields a message
\* whose type and data equal the inputs; decoding a truncated or non-JSON text
\* returns null and does not throw.
RoundTripDecoded ==
  codec.sent # NothingSent /\ codec.wire.valid /\ codec.result # NotDecoded

BadTextDecoded == ~codec.wire.valid /\ codec.result # NotDecoded

RECURSIVE JsonValue(_)
JsonValue(v) ==
  CASE v.t = "object" -> \A k \in DOMAIN v.p : JsonValue(v.p[k])
    [] v.t = "array" -> \A i \in 1..Len(v.e) : JsonValue(v.e[i])
    [] v.t = "undefined" -> FALSE
    [] v.t = "number" -> v.v # "NaN"
    [] OTHER -> TRUE

Expected(text) ==
  IF ~text.valid THEN "MalformedPayload"
  ELSE IF \/ Prop(text.doc, "type").t # "string"
          \/ Prop(text.doc, "data").t # "object"
  THEN "SchemaViolation"
  ELSE "accepted"

C15_DecodeContract ==
  /\ codec.result # NotDecoded =>
       /\ ~codec.result.threw
       /\ (codec.result.value # JsNull) <=> (Expected(codec.wire) = "accepted")
       /\ codec.result.value # JsNull => codec.result.value = codec.wire.doc
  /\ \A a, b \in seen : a.kind # b.kind => a.returned # b.returned

\* C16: a connection attempt whose caller gave no or an empty user_id or
\* project_id is closed with a reason naming the parameter before any message
\* is exchanged, the identity that goes on the wire is the caller's and never
\* a default; an attempt with both given is accepted, with or without
\* workflow_id.
Missing(v) == v = JsUndefined \/ v = JsString("")

C16_MissingIdentityRefused ==
  /\ conn.phase # "unmounted" =>
       /\ Missing(conn.args.userId) => conn.params.user_id = conn.args.userId
       /\ Missing(conn.args.projectId) => conn.params.project_id = conn.args.projectId
  /\ conn.phase = "done" =>
       IF Missing(conn.args.userId) \/ Missing(conn.args.projectId)
       THEN /\ conn.handshake.state = "closed"
            /\ conn.handshake.code = 1008
            /\ conn.exchanged = 0
       ELSE conn.handshake.state = "accepted"

\* C17: sendMessage and sendRawMessage never throw. Without a socket, or with
\* a socket that is not OPEN, they return false and hand nothing to the
\* socket. They return true, with messagesSent one higher, only when exactly
\* one frame was handed to the OPEN socket of the instance; a call that
\* returns false hands nothing over and counts nothing. sendRawMessage returns
\* false for a message that validateMessage rejects.
Sends == {"sendMessage", "sendRawMessage"}
C17_SendContract ==
  [][call'.op \in Sends =>
       /\ ~call'.threw
       /\ ~CurrentOpen(ws, socks) => call'.returned = FALSE
       /\ call'.returned = TRUE =>
            /\ CurrentOpen(ws, socks)
            /\ Len(call'.handed) = 1
            /\ socks' = [socks EXCEPT ![ws.wsRef].frames = @ + 1]
            /\ stats' = [stats EXCEPT !.messagesSent = @ + 1]
       /\ call'.returned = FALSE =>
            /\ call'.handed = <<>>
            /\ socks' = socks
            /\ stats' = stats
       /\ (call'.op = "sendRawMessage" /\ ~validateMessage(call'.arg)) =>
            call'.returned = FALSE]_vars

\* C17 witness: a send was accepted on the OPEN socket after one was refused
\* there for a message that is not valid.
C17_Witness ==
  /\ call.op = "sendRawMessage"
  /\ call.returned = FALSE
  /\ ~validateMessage(call.arg)
  /\ CurrentOpen(ws, socks)
  /\ stats.messagesSent = 1
  /\ socks[ws.wsRef].frames = 1

\* C18: while the channel is open a heartbeat is handed to its socket at every
\* heartbeat interval, none is handed to a socket that is not OPEN, and a
\* socket on which nothing has arrived for the timeout window does not stay
\* open.
C18_EveryInterval ==
  [][(call'.op = "interval" /\ CurrentOpen(ws, socks)) =>
       /\ Len(call'.handed) = 1
       /\ socks'[ws.wsRef].frames = socks[ws.wsRef].frames + 1]_vars
C18_OnlyOpen ==
  [][(call'.op = "interval" /\ call'.handed # <<>>) => CurrentOpen(ws, socks)]_vars
C18_SilentChannelClosed ==
  \A i \in 1..Len(socks) :
    socks[i].readyState = "OPEN" => socks[i].quiet < TimeoutIntervals
C18_HeartbeatAndTimeout ==
  C18_EveryInterval /\ C18_OnlyOpen /\ []C18_SilentChannelClosed

\* C19: a text that is not JSON or is no valid message, arriving on an open
\* socket, closes no socket and leaves the refs and the connection state as
\* they were; validationErrors grows by one and nothing else is counted; the
\* onMessage handler is not called and lastMessage stays. The handler has
\* been given exactly the valid messages that are no heartbeat, in the order
\* of their arrival, whatever arrived in between.
C19_BadMessageStep ==
  [][(call'.op = "onmessage" /\ parseWebSocketMessage(call'.arg).value = JsNull) =>
       /\ \A i \in 1..Len(socks) : socks'[i].readyState = socks[i].readyState
       /\ Len(socks') = Len(socks)
       /\ ws' = ws
       /\ stats' = [stats EXCEPT !.validationErrors = @ + 1]
       /\ inbox' = inbox]_vars
LiveSockets(sk) == {i \in 1..Len(sk) : sk[i].readyState \in {"CONNECTING", "OPEN"}}
C20_NoSecondSocket ==
  [][Len(socks') > Len(socks) => LiveSockets(socks) = {}]_vars
C20_OneLiveSocket ==
  C20_NoSecondSocket /\ [](Cardinality(LiveSockets(socks)) <= 1)

\* C21: addError and addWarning yield the list recorded so far followed by the
\* new entry, and leave the other list as it is, also when several calls are
\* made before the component has rendered again.
C21_AppendPreserves ==
  [][/\ simCall'.op = "addError" =>
          sim' = [sim EXCEPT !.errors = sim.errors \o simCall'.entry]
     /\ simCall'.op = "addWarning" =>
          sim' = [sim EXCEPT !.warnings = sim.warnings \o simCall'.entry]]_vars

\* C30: when handleFileUpload finishes successfully, cadFiles holds every file
\* listed before the call and the uploaded file, completed and under the
\* file_id of the server; when it fails, cadFiles holds the file as failed;
\* a finished upload leaves no entry of its own in uploading.
SameFile(before, after, u) ==
  after = before \/ \E v \in Uploads : before = TempId(v) /\ after = FileId(v)
Listed(cadFiles, ids, statuses) ==
  \E i \in 1..Len(cadFiles) : cadFiles[i].id \in ids /\ cadFiles[i].uploadStatus \in statuses
C30_UploadKeepsFiles ==
  [][\A u \in Uploads :
       /\ (uploads[u].pc = "stored" /\ uploads'[u].pc = "completed") =>
            /\ \A i \in 1..Len(uploads[u].before) :
                 \E j \in 1..Len(sim'.cadFiles) :
                   SameFile(uploads[u].before[i].id, sim'.cadFiles[j].id, u)
            /\ Listed(sim'.cadFiles, {FileId(u)}, {"completed"})
       /\ (uploads[u].pc # "failed" /\ uploads'[u].pc = "failed") =>
            Listed(sim'.cadFiles, {TempId(u), FileId(u)}, {"failed"})
       /\ uploads'[u].pc \in {"completed", "failed"} =>
            ~Listed(sim'.cadFiles, {TempId(u)}, {"uploading"})]_vars

\* C23: a socket that has opened leaves OPEN only through a close by the peer,
\* disconnect(), reconnect() called by the owner, a render with new
\* connection parameters, or the unmount: the hook does not close it on its
\* own account, and isConnected turning true starts no reconnect.
C23_NoSelfClose ==
  [][\A i \in 1..Len(socks) :
       (socks[i].readyState = "OPEN" /\ socks'[i].readyState # "OPEN") =>
          call'.op \in {"onclose", "disconnect", "reconnect", "effect rerun", "unmount"}]_vars

\* C24: isConnected is true, and the heartbeat timer set, exactly while the
\* current socket of the instance is OPEN; the close event of a socket that
\* is not the current one changes no ref and no connection state.
C24_StaleClose ==
  [][(call'.op = "onclose" /\ call'.sock # ws.wsRef) => ws' = ws]_vars
C24_ConnectedIffOpen ==
  /\ ws.isConnected <=> CurrentOpen(ws, socks)
  /\ ws.heartbeatTimeoutRef = "interval" <=> CurrentOpen(ws, socks)
C24_CurrentSocketOnly ==
  C24_StaleClose /\ []C24_ConnectedIffOpen

\* C25: from disconnect() or the unmount until the owner connects again, no
\* socket is created and no timer of the hook calls connect().
Stopped == call.op \in {"disconnect", "unmount"} \/ ~ws.shouldReconnectRef
C25_StaysDisconnected ==
  [][(Stopped /\ call'.op \notin {"reconnect", "mount", "effect rerun"}) =>
       /\ Len(socks') = Len(socks)
       /\ call'.op \notin {"reconnect timer", "delayed connect"}]_vars

\* C26: the attempt counter never exceeds maxReconnectAttempts; only a close
\* event starts a reconnect timer, one per close, and only while the counter
\* is below the bound, counting it; the counter goes back only to 0 and only
\* on an open or on reconnect().
PendingTimers(w) == (IF w.reconnectTimeoutRef = "pending" THEN 1 ELSE 0) + w.orphans
C26_AttemptSteps ==
  [][/\ PendingTimers(ws') > PendingTimers(ws) =>
          /\ call'.op = "onclose"
          /\ PendingTimers(ws') = PendingTimers(ws) + 1
          /\ ws.reconnectAttemptsRef < maxReconnectAttempts
          /\ ws'.reconnectAttemptsRef = ws.reconnectAttemptsRef + 1
     /\ ws'.reconnectAttemptsRef > ws.reconnectAttemptsRef =>
          PendingTimers(ws') = PendingTimers(ws) + 1
     /\ ws'.reconnectAttemptsRef < ws.reconnectAttemptsRef =>
          /\ call'.op \in {"onopen", "reconnect", "params effect"}
          /\ ws'.reconnectAttemptsRef = 0]_vars
C26_BoundedReconnects ==
  C26_AttemptSteps /\ [](ws.reconnectAttemptsRef <= maxReconnectAttempts)

\* C26 witness: the bound is reached and a further close has started no timer.
C26_Witness ==
  /\ call.op = "onclose"
  /\ ws.shouldReconnectRef
  /\ ws.reconnectAttemptsRef = maxReconnectAttempts
  /\ PendingTimers(ws) = 0
  /\ \A i \in 1..Len(socks) : socks[i].readyState = "CLOSED"
  /\ Len(socks) = MaxSockets

\* C22: one approval or rejection in the modal is applied to the record once
\* and resumes the workflow once, whichever of its two submissions arrives
\* first, and when the modal handles the reply of a response that has been
\* applied it clears activeCheckpoint and alerts no failure.
C22_AppliedOnce == record.applied <= 1 /\ record.resumed <= 1
C22_ModalClears ==
  [][(modal.rest \in {"ok", "failed"} /\ modal'.rest = "none" /\ record.applied = 1) =>
       /\ ~modal'.activeCheckpoint
       /\ modal'.alerts = modal.alerts]_vars
C22_OneResponse == []C22_AppliedOnce /\ C22_ModalClears

InboundOps == {"workflow_status_update", "workflow_step_complete",
               "hitl_checkpoint_created", "workflow_error"}
TerminalStatuses == {"completed", "failed"}

\* C27: once workflows[id].status is completed or failed, no inbound message
\* changes it to a non-terminal status.
C27_TerminalStays ==
  [][\A id \in MirrorIds :
       (wf'.last.op \in InboundOps /\ workflows[id].status \in TerminalStatuses)
         => workflows'[id].status \in TerminalStatuses]_vars

\* C28: whatever sequence of messages arrives, unknown workflow ids included,
\* no handler throws and every entry of workflows has a defined steps list.
C28_StepsDefined ==
  \A id \in MirrorIds : workflows[id] # NoWorkflow => workflows[id].steps.defined
C28_NoThrow == wf.threw # "TypeError"
C28_HandlersTotal == C28_StepsDefined /\ C28_NoThrow

\* A step in which the fetch of respondToHITL settles.
RespondSettled == wf.pending # NoRespond /\ wf'.pending = NoRespond

\* C29: when the REST call of respondToHITL fails (network error or non-OK
\* status) the call returns false, sets error, leaves the checkpoints as
\* they were and sends no hitl_response_submitted message; a checkpoint
\* becomes completed only by an OK response for its checkpointId, and no
\* other checkpoint is changed.
C29_FailedRespond ==
  [][(RespondSettled /\ wf'.api # "ok") =>
       /\ wf'.last = WfCalled("respondToHITL", wf.pending.checkpointId, "false")
       /\ wf'.error # "null"
       /\ hitlCheckpoints' = hitlCheckpoints
       /\ wf'.sent = wf.sent]_vars
C29_CompletedOnlyAfterOk ==
  [][\A i \in DOMAIN hitlCheckpoints :
       hitlCheckpoints'[i] # hitlCheckpoints[i] =>
         /\ RespondSettled
         /\ wf'.api = "ok"
         /\ hitlCheckpoints[i].checkpointId = wf.pending.checkpointId
         /\ hitlCheckpoints'[i] = [hitlCheckpoints[i] EXCEPT !.status = "completed"]]_vars
C29_RespondFailure == C29_FailedRespond /\ C29_CompletedOnlyAfterOk
C29_Witness ==
  /\ wf.api \in {"not ok", "network error"}
  /\ wf.last = WfCalled("respondToHITL", "c1", "false")
  /\ wf.error = "respond failed"
  /\ Len(wf.sent) = 1 /\ wf.sent[1].checkpoint_id = "c2"
  /\ \E i, j \in DOMAIN hitlCheckpoints :
       /\ hitlCheckpoints[i].checkpointId = "c1" /\ hitlCheckpoints[i].status = "pending"
       /\ hitlCheckpoints[j].checkpointId = "c2" /\ hitlCheckpoints[j].status = "completed"

====
